---- MODULE Spec2Model ----
(***************************************************************************)
(* State-machine model of the showdown_scraper job engine:                 *)
(* ReplayScraper.run_job (scraper.py), the SQLite store it writes          *)
(* (db/database.py), the search client (api.py) and the CLI commands that  *)
(* start, resume, pause and stop a job (cli.py).                           *)
(*                                                                         *)
(* Python Optional values are modelled as sequences of length <= 1:        *)
(* <<>> is None and <<v>> is the value v.                                  *)
(***************************************************************************)
EXTENDS Integers, Sequences, FiniteSets, Bags, TLC

(* ------------------------------ bounds --------------------------------- *)

\* Number of replays the remote service holds.
NumReplays == 4
\* Upload times are drawn from 0..MaxTime.
MaxTime == 2
\* Largest number of summaries one search call returns (51 on the real service).
PageSize == 3
\* Largest value of the limit argument of run_job.
MaxLimit == 1
\* Number of CLI processes (start / resume) launched in one behaviour.
MaxRuns == 2
\* Largest number of non-empty batches one run_job invocation processes (a job
\* whose cursor is 0 pages from the newest summary again and never ends).
MaxBatches == 3
\* Number of failures (API errors, unexpected exceptions) injected in one behaviour.
MaxFaults == 1
\* Log requests for one replay are counted up to this number.
MaxRequests == 2
\* Threads that call wait on one RateLimiter, and calls each of them makes.
NumCallers == 2
MaxCalls == 2
\* The wall clock runs from its start to MaxClock ticks.
MaxClock == 7
\* Longest log body saved in the archive, in characters.
MaxLogLen == 2
\* Most rows a database migrated from schema version 2 holds at the start.
MaxLegacy == 2

(* --------------------------- basic values ------------------------------ *)

None == <<>>
Some(v) == <<v>>

\* Python truthiness of an Optional[int]: None and 0 are falsy.
Truthy(opt) == opt # None /\ opt[1] # 0

JobNames == {"j1", "j2"}

\* Ratings of the spec's worked example; replay i has rating ExampleRatings[i mod 3].
ExampleRatings == <<1200, 1500, 1800>>
Rating(i) == ExampleRatings[((i - 1) % 3) + 1]

Limits == {None} \cup {Some(n) : n \in 0..MaxLimit}

VARIABLES
    service,        \* the remote service's summaries, newest first
    replays,        \* table replays: sequence of rows in insertion order
    scraper_state,  \* table scraper_state: sequence of job rows
    scrape_log,     \* table scrape_log: bag of audit entries
    files,          \* LogStorage: ids of the replays whose log file exists
    eng,            \* the CLI process running start / resume (ReplayScraper)
    ctl,            \* the CLI process running pause or stop
    runs,           \* CLI processes launched so far
    faults,         \* failures injected so far
    fetcher,        \* the CLI process running fetch-logs (LogFetcher)
    limiter,        \* one RateLimiter, its callers and the clock
    archive,        \* LogStorage as a file system: path -> file content
    served,         \* per job: summaries search has returned to its run_job calls
    missing         \* update-log-sizes: rows the last run reported as missing their file

vars == <<service, replays, scraper_state, scrape_log, files, eng, ctl, runs, faults,
          fetcher, limiter, archive, served, missing>>

Engines == {1, 2}

(* ------------------------------ service -------------------------------- *)

\* A summary as Replay.from_api_response builds it: log_fetched False, log_size 0.
from_api_response(id, t) ==
    [id |-> id, upload_time |-> t, rating |-> Rating(id),
     log_fetched |-> FALSE, log_size |-> 0]

NonIncreasing(s) == \A i \in 1..(Len(s) - 1) : s[i] >= s[i + 1]

\* Every assignment of upload times to NumReplays summaries, newest first.
\* The id's numeric suffix ascends with the upload order.
Services ==
    { [i \in 1..NumReplays |-> from_api_response(NumReplays + 1 - i, ts[i])] :
        ts \in { s \in [1..NumReplays -> 0..MaxTime] : NonIncreasing(s) } }

Take(s, n) == SubSeq(s, 1, IF Len(s) < n THEN Len(s) ELSE n)

\* The request search() sends: "before" is put in the parameters only when truthy.
search_params(before) == IF Truthy(before) THEN before ELSE None

\* The service's answer to a request: the newest PageSize summaries uploaded
\* strictly before the "before" parameter when it is sent, else the newest.
service_page(svc, param) ==
    Take(SelectSeq(svc, LAMBDA r : param = None \/ r.upload_time < param[1]), PageSize)

(* ------------------------------- store --------------------------------- *)

replay_exists(tbl, id) == \E i \in 1..Len(tbl) : tbl[i].id = id

\* insert_replay without the UNIQUE(id) constraint.
insert_replay_always(tbl, r) == [table |-> Append(tbl, r), ok |-> TRUE]

\* insert_replay that reports a rejected duplicate as inserted.
insert_replay_counted(tbl, r) ==
    IF replay_exists(tbl, r.id)
    THEN [table |-> tbl, ok |-> TRUE]
    ELSE [table |-> Append(tbl, r), ok |-> TRUE]

\* insert_replay as INSERT OR REPLACE: a stored row is overwritten.
insert_replay_replace(tbl, r) ==
    IF replay_exists(tbl, r.id)
    THEN [table |-> [a \in 1..Len(tbl) |-> IF tbl[a].id = r.id THEN r ELSE tbl[a]],
          ok |-> FALSE]
    ELSE [table |-> Append(tbl, r), ok |-> TRUE]

\* Database.insert_replay: INSERT under the UNIQUE(id) constraint; an
\* IntegrityError is caught and reported as False.
insert_replay(tbl, r) ==
    IF replay_exists(tbl, r.id)
    THEN [table |-> tbl, ok |-> FALSE]
    ELSE [table |-> Append(tbl, r), ok |-> TRUE]

\* job_exists that sees running jobs only.
job_exists_running(tbl, name) ==
    \E i \in 1..Len(tbl) : tbl[i].job_name = name /\ tbl[i].status = "running"

\* A row of that name is in the table (SELECT ... WHERE job_name = ?; the
\* UNIQUE constraint on job_name).
job_exists(tbl, name) == \E i \in 1..Len(tbl) : tbl[i].job_name = name

\* Database.get_job: the row with that name, or None.
get_job(tbl, name) ==
    IF job_exists(tbl, name)
    THEN Some(tbl[CHOOSE i \in 1..Len(tbl) : tbl[i].job_name = name])
    ELSE None

\* Database.update_job: UPDATE ... WHERE job_name = ?; no row, no effect.
update_job(tbl, job) ==
    [i \in 1..Len(tbl) |-> IF tbl[i].job_name = job.job_name THEN job ELSE tbl[i]]

\* Database.set_job_status: UPDATE status WHERE job_name = ?.
set_job_status(tbl, name, status) ==
    [i \in 1..Len(tbl) |->
        IF tbl[i].job_name = name THEN [tbl[i] EXCEPT !.status = status] ELSE tbl[i]]

\* delete_job without its WHERE clause.
delete_job_all(tbl, name) == <<>>

\* Database.delete_job: DELETE ... WHERE job_name = ?.
delete_job(tbl, name) == SelectSeq(tbl, LAMBDA j : j.job_name # name)

\* Database.create_job: INSERT of a new row.
create_job(tbl, job) == Append(tbl, job)

\* ScraperJob with the dataclass defaults.
ScraperJob(name, min_elo, max_elo) ==
    [job_name |-> name, min_elo |-> min_elo, max_elo |-> max_elo,
     last_timestamp |-> None, status |-> "idle",
     total_fetched |-> 0, total_stored |-> 0]

\* add_log that writes nothing.
add_log_skipped(tbl, name, level, message) == tbl

\* LogEntry.info / warning / error, appended by Database.add_log. The table is
\* append-only and is never read by the engine: it is kept as the bag of its
\* entries (their order and timestamps are left out).
add_log(tbl, name, level, message) ==
    tbl (+) SetToBag({[job_name |-> name, level |-> level, message |-> message]})

(* ------------------------------ engine --------------------------------- *)

\* _filter_by_elo with "rating > min_elo" for "rating >= min_elo".
filter_by_elo_strict(batch, min_elo, max_elo) ==
    LET keep(i) ==
            LET rating == batch[i].rating
            IN  rating > min_elo /\ (max_elo = None \/ rating <= max_elo[1])
        F[i \in 0..Len(batch)] ==
            IF i = 0 THEN <<>>
            ELSE IF keep(i) THEN Append(F[i - 1], i) ELSE F[i - 1]
    IN  F[Len(batch)]

\* ReplayScraper._filter_by_elo, as the indexes of the matching summaries.
filter_by_elo(batch, min_elo, max_elo) ==
    LET keep(i) ==
            LET rating == batch[i].rating
            IN  rating >= min_elo /\ (max_elo = None \/ rating <= max_elo[1])
        F[i \in 0..Len(batch)] ==
            IF i = 0 THEN <<>>
            ELSE IF keep(i) THEN Append(F[i - 1], i) ELSE F[i - 1]
    IN  F[Len(batch)]

\* count_fetched that assigns the size of the batch instead of adding it.
count_fetched_assign(job, batch) == [job EXCEPT !.total_fetched = Len(batch)]

\* count_fetched counting only the summaries inside the job's rating band.
count_fetched_matched(job, batch) ==
    [job EXCEPT !.total_fetched =
        @ + Len(filter_by_elo(batch, job.min_elo, job.max_elo))]

\* run_job, lines 129-130: the whole batch is counted in total_fetched.
count_fetched(job, batch) == [job EXCEPT !.total_fetched = @ + Len(batch)]

\* count_new that counts every insert_replay call.
count_new_always(ok) == 1

\* run_job, lines 153-155: an insert_replay that answered True counts one more
\* in job.total_stored and in total_new.
count_new(ok) == IF ok THEN 1 ELSE 0

\* saved that writes no file.
saved_nowhere(fls, replay_id) == fls

\* LogStorage.save, lines 25-44: after save the archive holds a file for the
\* replay (the files of the archive are told apart by replay id: an id has
\* one format).
saved(fls, replay_id) == fls \cup {replay_id}

\* on_log that flags the summary whatever get_replay_log answered.
on_log_always(replay, log) == [replay EXCEPT !.log_fetched = TRUE, !.log_size = 1]

\* run_job, lines 142-146: "if log:" the body is archived and the summary is
\* flagged with the size of the file; None leaves the summary as it is.
on_log(replay, log) ==
    IF log THEN [replay EXCEPT !.log_fetched = TRUE, !.log_size = 1] ELSE replay

\* log_loop_entered that ignores the fetch_logs argument.
log_loop_entered_always(fetch_logs, elo_matched) == elo_matched # <<>>

\* run_job, lines 137-138: "if fetch_logs: for replay in elo_matched:" has at
\* least one pass.
log_loop_entered(fetch_logs, elo_matched) == fetch_logs /\ elo_matched # <<>>

\* limit_reached tested against the rows of the batch so far: true as soon as
\* the limit is set.
limit_reached_early(limit, total_new) == Truthy(limit)

\* run_job, line 96: "if limit and total_new >= limit".
limit_reached(limit, total_new) == Truthy(limit) /\ total_new >= limit[1]

\* empty_result that also clears the cursor.
empty_result_reset(job) == [job EXCEPT !.status = "completed", !.last_timestamp = None]

\* run_job, lines 124-127: an empty answer marks the job completed.
empty_result(job) == [job EXCEPT !.status = "completed"]

\* advance_cursor that moves the cursor one second past the batch.
advance_cursor_past(job, batch) ==
    [job EXCEPT !.last_timestamp = Some(batch[Len(batch)].upload_time - 1)]

\* advance_cursor taking the first summary of the batch.
advance_cursor_first(job, batch) ==
    [job EXCEPT !.last_timestamp = Some(batch[1].upload_time)]

\* run_job, lines 158-159: the cursor becomes the upload time of the last
\* summary of the batch.
advance_cursor(job, batch) ==
    [job EXCEPT !.last_timestamp = Some(batch[Len(batch)].upload_time)]

\* on_exception that leaves the status as it is.
on_exception_running(job) == job

\* run_job, line 177: an unexpected exception parks the job.
on_exception(job) == [job EXCEPT !.status = "paused"]

\* after_loop that leaves the status as it is.
after_loop_running(job, running) == job

\* run_job, lines 182-183: a shutdown turns a running job into a paused one.
after_loop(job, running) ==
    IF ~running /\ job.status = "running" THEN [job EXCEPT !.status = "paused"]
    ELSE job

\* A CLI process that has not been launched. Fields, in the order of the code:
\* the command line (cmd, job_name, limit, fetch_logs, min_elo, max_elo),
\* ReplayScraper.running, and the locals of run_job: job, batch_count,
\* total_new, replays, elo_matched (indexes into replays), the positions of the
\* two for loops (k, i), the value of the last insert_replay call (inserted),
\* the parameter of the last search request (request: None before the first
\* search, else Some(parameter)), how the last search ended (searched), the
\* exit the loop took (why) and the value run_job returned (ret).
\* paused_at records the batch that was in progress when another process set
\* the job's stored status to paused during this invocation.
NoProcess ==
    [pc |-> "idle", cmd |-> "none", job_name |-> "none", limit |-> None,
     fetch_logs |-> FALSE, min_elo |-> 0, max_elo |-> None,
     running |-> TRUE, job |-> None,
     batch_count |-> 0, total_new |-> 0, replays |-> <<>>, elo_matched |-> <<>>,
     k |-> 1, i |-> 1, inserted |-> None, request |-> None, searched |-> "none",
     why |-> "none", ret |-> None, paused_at |-> None]

\* The process has ended: its locals are gone. What is kept is the command
\* line, the exit the loop took, the value run_job returned (None when the
\* command ended without calling it) and paused_at.
Exited(p, why, ret) ==
    [NoProcess EXCEPT !.pc = "exit", !.cmd = p.cmd, !.job_name = p.job_name,
                      !.limit = p.limit, !.fetch_logs = p.fetch_logs,
                      !.why = why, !.ret = ret, !.paused_at = p.paused_at]

\* Positions of run_job inside its try block (scraper.py 93-172).
InTry == {"loop", "search", "sleep", "fetch", "insert", "update"}
\* Positions of run_job between its first statement and its return.
InRunJob == {"rj_mark"} \cup InTry \cup {"final"}

\* The CLI process running pause or stop, not launched: its position, the
\* --job-name it was given and, for stop --all, the jobs it still has to delete.
NoControl == [pc |-> "idle", job_name |-> "none", jobs |-> {}]

(* ----------------------------- LogFetcher ------------------------------ *)

\* LogFetcher.run, line 373.
batch_size == 10

\* The rating band of a candidate query: None leaves a side open.
rating_filter(r, min_elo, max_elo) ==
    /\ (min_elo = None \/ r.rating >= min_elo[1])
    /\ (max_elo = None \/ r.rating <= max_elo[1])

\* ORDER BY upload_time DESC; rows with one upload time keep the table's order.
order_by_upload_time_desc(rows) ==
    LET F[t \in -1..MaxTime] ==
            IF t = -1 THEN <<>>
            ELSE SelectSeq(rows, LAMBDA r : r.upload_time = t) \o F[t - 1]
    IN  F[MaxTime]

\* The number of rows without a log inside the band.
count_replays_without_logs(tbl, min_elo, max_elo) ==
    Len(SelectSeq(tbl, LAMBDA r : ~r.log_fetched /\ rating_filter(r, min_elo, max_elo)))

\* get_replays_without_logs without WHERE log_fetched = 0.
get_replays_with_or_without_logs(tbl, limit, min_elo, max_elo) ==
    Take(order_by_upload_time_desc(
            SelectSeq(tbl, LAMBDA r : rating_filter(r, min_elo, max_elo))),
         limit)

\* Database.get_replays_without_logs: WHERE log_fetched = 0 (and the band)
\* ORDER BY upload_time DESC LIMIT ?.
get_replays_without_logs(tbl, limit, min_elo, max_elo) ==
    Take(order_by_upload_time_desc(
            SelectSeq(tbl, LAMBDA r : ~r.log_fetched /\ rating_filter(r, min_elo, max_elo))),
         limit)

\* update_log_sizes that deletes a row whose file is missing.
update_log_sizes_delete(tbl, fls) ==
    LET sized == [a \in 1..Len(tbl) |->
                    IF tbl[a].log_fetched /\ tbl[a].log_size = 0 /\ tbl[a].id \in fls
                    THEN [tbl[a] EXCEPT !.log_size = 1] ELSE tbl[a]]
    IN  SelectSeq(sized, LAMBDA r : ~(r.log_fetched /\ r.log_size = 0))

\* cli.update_log_sizes, lines 325-353: "missing", the number of selected rows
\* whose archive file does not exist.
missing_logs(tbl, fls) ==
    Len(SelectSeq(tbl, LAMBDA r : r.log_fetched /\ r.log_size = 0 /\ r.id \notin fls))

\* cli.update_log_sizes, lines 313-350: every row flagged log_fetched with
\* log_size 0 gets the size of its archive file (1 stands for any file size)
\* or, when the file does not exist, is put back to log_fetched False.
update_log_sizes(tbl, fls) ==
    [a \in 1..Len(tbl) |->
        IF tbl[a].log_fetched /\ tbl[a].log_size = 0
        THEN IF tbl[a].id \in fls
             THEN [tbl[a] EXCEPT !.log_size = 1]
             ELSE [tbl[a] EXCEPT !.log_fetched = FALSE, !.log_size = 0]
        ELSE tbl[a]]

\* Database.mark_log_fetched: UPDATE replays SET log_fetched = 1, log_size = ?
\* WHERE id = ?.
mark_log_fetched(tbl, id, log_size) ==
    [i \in 1..Len(tbl) |->
        IF tbl[i].id = id
        THEN [tbl[i] EXCEPT !.log_fetched = TRUE, !.log_size = log_size]
        ELSE tbl[i]]

\* current_limit that asks for a full batch whatever the limit.
current_limit_batch(limit, total_fetched) == batch_size

\* LogFetcher.run, line 376.
current_limit(limit, total_fetched) ==
    IF limit = None THEN batch_size
    ELSE IF batch_size < limit[1] - total_fetched THEN batch_size
    ELSE limit[1] - total_fetched

\* The number of log requests made for one replay, counted up to MaxRequests.
count_request(requests, id) ==
    [requests EXCEPT ![id] = IF @ < MaxRequests THEN @ + 1 ELSE @]

\* The fetch-logs process, not launched: the --limit option, LogFetcher.running,
\* the locals of run (total_fetched, replays, the position k of the for loop),
\* how the last log request ended (fetched: None before the first request),
\* the number of log requests made for each replay in this invocation, the
\* exit taken (why) and the value run returned (ret).
NoFetcher ==
    [pc |-> "idle", limit |-> None, min_elo |-> None, max_elo |-> None,
     running |-> TRUE, total_fetched |-> 0,
     replays |-> <<>>, k |-> 1, fetched |-> None,
     requests |-> [id \in 1..NumReplays |-> 0], why |-> "none", ret |-> None]

\* run has returned: its locals are gone.
Returned(f, why) ==
    [NoFetcher EXCEPT !.pc = "exit", !.limit = f.limit, !.running = f.running,
                      !.min_elo = f.min_elo, !.max_elo = f.max_elo,
                      !.requests = f.requests, !.why = why,
                      !.ret = Some(f.total_fetched)]

(* ----------------------------- RateLimiter ----------------------------- *)

\* RateLimiter.min_interval (1.0 second by default), in clock ticks of half a
\* second.
min_interval == 2

\* The threads that share one RateLimiter.
Callers == 1..NumCallers

\* A Lock that anyone may take.
can_acquire_always(lock) == TRUE

\* threading.Lock: acquired only when nobody holds it.
can_acquire(lock) == lock = None

\* wait, lines 26-28: the time to sleep after reading the clock, 0 for none.
sleep_time(now, last_request_time) ==
    LET elapsed == now - last_request_time
    IN  IF elapsed < min_interval THEN min_interval - elapsed ELSE 0

\* A RateLimiter as __init__ leaves it (last request at 0.0, lock free), the
\* wall clock (now: the epoch clock is far past 0.0, so a first call never
\* sleeps), each caller's position in wait, its number of calls so far and the
\* time its sleep ends, and the returns from wait so far: the caller and the
\* time it stamped.
NoLimiter ==
    [last_request_time |-> 0, lock |-> None, now |-> min_interval,
     pc |-> [t \in Callers |-> "idle"],
     calls |-> [t \in Callers |-> 0],
     wake_at |-> [t \in Callers |-> 0],
     returns |-> <<>>]

(* ------------------------------ LogStorage ----------------------------- *)

\* The characters of a log body: a letter, carriage return, line feed.
Chars == {"a", "CR", "LF"}

\* The non-empty log bodies (an empty body is never saved: `if log:`).
Logs == UNION {[1..n -> Chars] : n \in 1..MaxLogLen}

\* The replay ids and formats the archive is used with.
ArchiveIds == {"r1", "r2"}
ArchiveFormats == {"gen9ou"}

\* os.linesep: "\n" on POSIX, "\r\n" on Windows.
LineSeps == {<<"LF">>, <<"CR", "LF">>}

\* LogStorage._get_log_path: base_path / format_id / "<replay_id>.log.gz".
get_log_path(replay_id, format_id) == <<format_id, replay_id>>

Paths == {get_log_path(id, fmt) : id \in ArchiveIds, fmt \in ArchiveFormats}

\* Writing text with newline=None (the default of gzip.open in "wt" mode):
\* every "\n" is written as os.linesep.
write_text(text, linesep) ==
    LET F[i \in 0..Len(text)] ==
            IF i = 0 THEN <<>>
            ELSE F[i - 1] \o (IF text[i] = "LF" THEN linesep ELSE <<text[i]>>)
    IN  F[Len(text)]

\* Reading text with newline=None (the default of gzip.open in "rt" mode):
\* universal newlines, "\r\n" and "\r" are both returned as "\n".
read_text(data) ==
    LET F[i \in 0..Len(data)] ==
            IF i = 0 THEN <<>>
            ELSE IF data[i] = "CR" THEN Append(F[i - 1], "LF")
            ELSE IF data[i] = "LF" /\ i > 1 /\ data[i - 1] = "CR" THEN F[i - 1]
            ELSE Append(F[i - 1], data[i])
    IN  F[Len(data)]

\* gzip: the compressed stream is a header followed by the deflated data, which
\* inflates to the data written.
gzip_compress(data) == <<"gzip">> \o data
gzip_decompress(bytes) == Tail(bytes)

\* LogStorage.save, lines 37-44: the content of the file it writes.
save(log, linesep) == gzip_compress(write_text(log, linesep))

\* LogStorage.load, lines 57-66: None when the file does not exist.
load(fs, path) ==
    IF fs[path] = None THEN None
    ELSE Some(read_text(gzip_decompress(fs[path][1])))

\* An empty archive on a platform with that line separator: no file exists.
\* saved is the body last passed to save for each path that has not been
\* deleted since; loaded is the last load call and what it returned.
NoArchive(linesep) ==
    [linesep |-> linesep, fs |-> [p \in Paths |-> None],
     saved |-> [p \in Paths |-> None], loaded |-> None]

\* The rating bands a job is created with: (min_elo, max_elo).
Bands == {<<1500, None>>, <<0, Some(1500)>>}

\* No job, no audit entry, no process started.
InitProcesses ==
    /\ service \in Services
    /\ scraper_state = <<>>
    /\ scrape_log = EmptyBag
    /\ eng = [e \in Engines |-> NoProcess]
    /\ ctl = NoControl
    /\ fetcher = NoFetcher
    /\ limiter = NoLimiter
    /\ runs = 0
    /\ faults = 0
    /\ served = [name \in JobNames |-> 0]
    /\ missing = 0

\* Everything but the archive: an empty database, no process started.
InitStore ==
    /\ InitProcesses
    /\ replays = <<>>
    /\ files = {}

\* A database created under schema version 2 and migrated: up to MaxLegacy
\* summaries of the first page are stored, each flagged log_fetched or not,
\* with the log_size 0 the added column defaults to (schema.py 28-31); the
\* flagged ones have their file in the archive.
InitLegacy ==
    /\ InitProcesses
    /\ archive = NoArchive(<<"LF">>)
    /\ \E n \in 0..MaxLegacy : \E flags \in [1..n -> BOOLEAN] :
          /\ replays = [a \in 1..n |->
                [service[a + 1] EXCEPT !.log_fetched = flags[a], !.log_size = 0]]
          /\ files = {service[a + 1].id : a \in {b \in 1..n : flags[b]}}

Init ==
    /\ InitStore
    /\ archive = NoArchive(<<"LF">>)

\* The archive on either platform.
InitArchive ==
    /\ InitStore
    /\ \E linesep \in LineSeps : archive = NoArchive(linesep)

\* A new CLI process: `start` or `resume` with its options (cli.py 68-86,
\* 148-158). resume has no rating options: the job row holds the band.
Launch(e, names, limits, fls, bands) ==
    /\ eng[e].pc \in {"idle", "exit"}
    /\ runs < MaxRuns
    /\ \E cmd \in {"start", "resume"}, name \in names, limit \in limits,
          fl \in fls, band \in bands :
        /\ cmd = "resume" => band = CHOOSE b \in bands : TRUE
        /\ eng' = [eng EXCEPT ![e] =
                [NoProcess EXCEPT !.pc = IF cmd = "start" THEN "start_check"
                                                            ELSE "resume_check",
                                  !.cmd = cmd, !.job_name = name, !.limit = limit,
                                  !.fetch_logs = fl,
                                  !.min_elo = band[1], !.max_elo = band[2]]]
    /\ runs' = runs + 1
    /\ UNCHANGED <<service, replays, scraper_state, scrape_log, files, ctl, faults, fetcher, limiter, archive, served, missing>>

\* cli.start: a job of that name in any status makes the command exit.
StartCheck(e) ==
    /\ eng[e].pc = "start_check"
    /\ eng' = [eng EXCEPT ![e] =
                IF job_exists(scraper_state, eng[e].job_name)
                THEN Exited(@, "exists", None)
                ELSE [@ EXCEPT !.pc = "create_check"]]
    /\ UNCHANGED <<service, replays, scraper_state, scrape_log, files, ctl, runs, faults, fetcher, limiter, archive, served, missing>>

\* ReplayScraper.create_job: ValueError when the name exists (cli.start exits).
CreateCheck(e) ==
    /\ eng[e].pc = "create_check"
    /\ eng' = [eng EXCEPT ![e] =
                IF job_exists(scraper_state, eng[e].job_name)
                THEN Exited(@, "exists", None)
                ELSE [@ EXCEPT !.pc = "create_insert"]]
    /\ UNCHANGED <<service, replays, scraper_state, scrape_log, files, ctl, runs, faults, fetcher, limiter, archive, served, missing>>

\* Database.create_job: the INSERT fails on the UNIQUE job_name constraint
\* (an uncaught IntegrityError ends the process).
CreateInsert(e) ==
    /\ eng[e].pc = "create_insert"
    /\ IF job_exists(scraper_state, eng[e].job_name)
       THEN /\ eng' = [eng EXCEPT ![e] = Exited(@, "integrity", None)]
            /\ UNCHANGED <<scraper_state, served, missing>>
       ELSE /\ scraper_state' = create_job(scraper_state,
                    ScraperJob(eng[e].job_name, eng[e].min_elo, eng[e].max_elo))
            /\ served' = [served EXCEPT ![eng[e].job_name] = 0]
            /\ eng' = [eng EXCEPT ![e].pc = "rj_get"]
    /\ UNCHANGED <<service, replays, scrape_log, files, ctl, runs, faults, fetcher, limiter, archive, missing>>

\* cli.resume: exits when the job is missing or its stored status is running.
ResumeCheck(e) ==
    /\ eng[e].pc = "resume_check"
    /\ LET job == get_job(scraper_state, eng[e].job_name)
       IN  eng' = [eng EXCEPT ![e] =
                IF job = None THEN Exited(@, "notfound", None)
                ELSE IF job[1].status = "running" THEN Exited(@, "busy", None)
                ELSE [@ EXCEPT !.pc = "rj_get"]]
    /\ UNCHANGED <<service, replays, scraper_state, scrape_log, files, ctl, runs, faults, fetcher, limiter, archive, served, missing>>

\* run_job, lines 77-80: load the job; not found returns False.
RunJobGet(e) ==
    /\ eng[e].pc = "rj_get"
    /\ LET job == get_job(scraper_state, eng[e].job_name)
       IN  eng' = [eng EXCEPT ![e] =
                IF job = None
                THEN Exited(@, "notfound", Some(FALSE))
                ELSE [@ EXCEPT !.pc = "rj_mark", !.job = job]]
    /\ UNCHANGED <<service, replays, scraper_state, scrape_log, files, ctl, runs, faults, fetcher, limiter, archive, served, missing>>

\* run_job, lines 82-91: mark the job running, persist, log the start.
RunJobMark(e) ==
    /\ eng[e].pc = "rj_mark"
    /\ LET job == [eng[e].job[1] EXCEPT !.status = "running"]
       IN  /\ scraper_state' = update_job(scraper_state, job)
           /\ scrape_log' = add_log(scrape_log, eng[e].job_name, "info", "started")
           /\ eng' = [eng EXCEPT ![e] =
                    [@ EXCEPT !.pc = "loop", !.job = Some(job),
                              !.batch_count = 0, !.total_new = 0]]
    /\ UNCHANGED <<service, replays, files, ctl, runs, faults, fetcher, limiter, archive, served, missing>>

\* run_job, lines 94-109: the top of an iteration. The shutdown flag, then the
\* limit (None and 0 are falsy, so they never stop the loop), then the job row
\* re-read from the store: deleted returns False, paused leaves the loop.
LoopTop(e) ==
    /\ eng[e].pc = "loop"
    /\ LET p == eng[e]
           job == p.job[1]
           current_job == get_job(scraper_state, p.job_name)
       IN  eng' = [eng EXCEPT ![e] =
                IF ~p.running
                THEN [@ EXCEPT !.pc = "final", !.why = "shutdown"]
                ELSE IF limit_reached(p.limit, p.total_new)
                THEN [@ EXCEPT !.pc = "final", !.why = "limit",
                               !.job = Some([job EXCEPT !.status = "completed"])]
                ELSE IF current_job = None
                THEN Exited(@, "deleted", Some(FALSE))
                ELSE IF current_job[1].status = "paused"
                THEN [@ EXCEPT !.pc = "final", !.why = "paused",
                               !.job = Some([job EXCEPT !.status = "paused"])]
                ELSE [@ EXCEPT !.pc = "search"]]
    /\ UNCHANGED <<service, replays, scraper_state, scrape_log, files, ctl, runs, faults, fetcher, limiter, archive, served, missing>>

\* run_job, lines 112-133: a search that answers. An empty answer completes the
\* job; otherwise the batch is counted in total_fetched and filtered by ELO.
SearchOk(e) ==
    /\ eng[e].pc = "search"
    /\ LET p == eng[e]
           job == p.job[1]
           param == search_params(job.last_timestamp)
           batch == service_page(service, param)
           matched == filter_by_elo(batch, job.min_elo, job.max_elo)
       IN  /\ batch # <<>> => p.batch_count < MaxBatches
           /\ eng' = [eng EXCEPT ![e] =
                IF batch = <<>>
                THEN [@ EXCEPT !.pc = "final", !.why = "exhausted",
                               !.request = Some(param), !.searched = "empty",
                               !.job = Some(empty_result(job))]
                ELSE [@ EXCEPT !.pc = IF log_loop_entered(p.fetch_logs, matched)
                                      THEN "fetch" ELSE "insert",
                               !.request = Some(param), !.searched = "ok",
                               !.batch_count = @ + 1,
                               !.job = Some(count_fetched(job, batch)),
                               !.replays = batch, !.elo_matched = matched,
                               !.k = 1, !.i = 1, !.inserted = None]]
           /\ served' = [served EXCEPT ![p.job_name] = @ + Len(batch)]
    /\ UNCHANGED <<service, replays, scraper_state, scrape_log, files, ctl, runs, faults, fetcher, limiter, archive, missing>>

\* run_job, lines 118-121: the search raises ShowdownAPIError after the
\* client's own retries; an error entry is logged and the engine sleeps.
SearchError(e) ==
    /\ eng[e].pc = "search"
    /\ faults < MaxFaults
    /\ faults' = faults + 1
    /\ scrape_log' = add_log(scrape_log, eng[e].job_name, "error", "api")
    /\ eng' = [eng EXCEPT ![e] =
            [@ EXCEPT !.pc = "sleep", !.searched = "error",
                      !.request = Some(search_params(eng[e].job[1].last_timestamp))]]
    /\ UNCHANGED <<service, replays, scraper_state, files, ctl, runs, fetcher, limiter, archive, served, missing>>

\* run_job, lines 121-122: time.sleep(retry_delay) returns; continue.
Wake(e) ==
    /\ eng[e].pc = "sleep"
    /\ eng' = [eng EXCEPT ![e].pc = "loop"]
    /\ UNCHANGED <<service, replays, scraper_state, scrape_log, files, ctl, runs, faults, fetcher, limiter, archive, served, missing>>

\* run_job, lines 138-149: one pass of the log loop over elo_matched. The
\* shutdown flag breaks the loop; get_replay_log answers a log or None
\* (it swallows ShowdownAPIError); a log is archived and the summary flagged.
FetchLog(e) ==
    /\ eng[e].pc = "fetch"
    /\ LET p == eng[e]
           idx == p.elo_matched[p.k]
           replay == p.replays[idx]
           next == IF p.k = Len(p.elo_matched) THEN "insert" ELSE "fetch"
       IN  IF ~p.running
           THEN /\ eng' = [eng EXCEPT ![e].pc = "insert"]
                /\ UNCHANGED files
           ELSE \E log \in BOOLEAN :
                /\ files' = IF log THEN saved(files, replay.id) ELSE files
                /\ eng' = [eng EXCEPT ![e] =
                        [@ EXCEPT !.pc = next, !.k = @ + 1,
                                  !.replays[idx] = on_log(replay, log)]]
    /\ UNCHANGED <<service, replays, scraper_state, scrape_log, ctl, runs, faults, fetcher, limiter, archive, served, missing>>

\* run_job, lines 152-155: one pass of the insert loop over the whole batch.
Insert(e) ==
    /\ eng[e].pc = "insert"
    /\ LET p == eng[e]
           job == p.job[1]
           res == insert_replay(replays, p.replays[p.i])
           new == count_new(res.ok)
       IN  /\ replays' = res.table
           /\ eng' = [eng EXCEPT ![e] =
                [@ EXCEPT !.pc = IF p.i = Len(p.replays) THEN "update" ELSE "insert",
                          !.i = @ + 1, !.inserted = Some(res.ok),
                          !.total_new = @ + new,
                          !.job = Some([job EXCEPT !.total_stored = @ + new])]]
    /\ UNCHANGED <<service, scraper_state, scrape_log, files, ctl, runs, faults, fetcher, limiter, archive, served, missing>>

\* run_job, lines 158-161: the cursor moves to the last summary of the batch
\* and the whole in-memory job is written to its row.
UpdateCursor(e) ==
    /\ eng[e].pc = "update"
    /\ LET p == eng[e]
           job == advance_cursor(p.job[1], p.replays)
       IN  /\ scraper_state' = update_job(scraper_state, job)
           /\ eng' = [eng EXCEPT ![e] = [@ EXCEPT !.pc = "loop", !.job = Some(job)]]
    /\ UNCHANGED <<service, replays, scrape_log, files, ctl, runs, faults, fetcher, limiter, archive, served, missing>>

\* run_job, lines 174-179: any other exception inside the try block. An error
\* entry is logged, the job is written with status paused, False is returned.
Exception(e) ==
    /\ eng[e].pc \in {"loop", "search", "fetch", "insert", "update"}
    /\ faults < MaxFaults
    /\ faults' = faults + 1
    /\ LET job == on_exception(eng[e].job[1])
       IN  /\ scrape_log' = add_log(scrape_log, eng[e].job_name, "error", "unexpected")
           /\ scraper_state' = update_job(scraper_state, job)
           /\ eng' = [eng EXCEPT ![e] = Exited(@, "error", Some(FALSE))]
    /\ UNCHANGED <<service, replays, files, ctl, runs, fetcher, limiter, archive, served, missing>>

\* run_job, lines 181-197: after the loop. A shutdown turns running into
\* paused; the job is written, the end is logged, completed returns True.
Final(e) ==
    /\ eng[e].pc = "final"
    /\ LET p == eng[e]
           job == after_loop(p.job[1], p.running)
       IN  /\ scraper_state' = update_job(scraper_state, job)
           /\ scrape_log' = add_log(scrape_log, p.job_name, "info", "finished")
           /\ eng' = [eng EXCEPT ![e] =
                Exited(@, p.why, Some(job.status = "completed"))]
    /\ UNCHANGED <<service, replays, files, ctl, runs, faults, fetcher, limiter, archive, served, missing>>

\* ReplayScraper._handle_shutdown: SIGINT / SIGTERM clears the running flag.
Shutdown(e) ==
    /\ eng[e].pc \in {"rj_get"} \cup InRunJob
    /\ eng[e].running
    /\ eng' = [eng EXCEPT ![e].running = FALSE]
    /\ UNCHANGED <<service, replays, scraper_state, scrape_log, files, ctl, runs, faults, fetcher, limiter, archive, served, missing>>

(* --------------------------- other commands ---------------------------- *)

\* The batch of engine e that is in progress: the one its next search starts
\* when it is about to search, else the one it is processing.
BatchInProgress(e) ==
    IF eng[e].pc = "search" THEN eng[e].batch_count + 1 ELSE eng[e].batch_count

\* cli.pause, lines 190-197: read the job; go on only when it is running.
PauseCheck(names) ==
    /\ ctl.pc = "idle"
    /\ \E name \in names :
        /\ get_job(scraper_state, name) # None
        /\ get_job(scraper_state, name)[1].status = "running"
        /\ ctl' = [NoControl EXCEPT !.pc = "pause_set", !.job_name = name]
    /\ UNCHANGED <<service, replays, scraper_state, scrape_log, files, eng, runs, faults, fetcher, limiter, archive, served, missing>>

\* cli.pause, line 199: set_job_status(job_name, "paused").
PauseSet ==
    /\ ctl.pc = "pause_set"
    /\ scraper_state' = set_job_status(scraper_state, ctl.job_name, "paused")
    /\ ctl' = NoControl
    /\ eng' = [e \in Engines |->
            IF /\ eng[e].pc \in InTry
               /\ eng[e].job_name = ctl.job_name
               /\ job_exists(scraper_state, ctl.job_name)
               /\ eng[e].paused_at = None
            THEN [eng[e] EXCEPT !.paused_at = Some(BatchInProgress(e))]
            ELSE eng[e]]
    /\ UNCHANGED <<service, replays, scrape_log, files, runs, faults, fetcher, limiter, archive, served, missing>>

\* cli.stop --job-name, lines 223-234: the job row is deleted.
Stop(names) ==
    /\ \E name \in names :
        /\ job_exists(scraper_state, name)
        /\ scraper_state' = delete_job(scraper_state, name)
    /\ UNCHANGED <<service, replays, scrape_log, files, eng, ctl, runs, faults, fetcher, limiter, archive, served, missing>>

\* cli.stop --all, lines 212-214: list the jobs.
StopAllList ==
    /\ ctl.pc = "idle"
    /\ scraper_state # <<>>
    /\ ctl' = [NoControl EXCEPT !.pc = "stop_all",
                  !.jobs = {scraper_state[i].job_name : i \in 1..Len(scraper_state)}]
    /\ UNCHANGED <<service, replays, scraper_state, scrape_log, files, eng, runs, faults,
                   fetcher, limiter, archive, served, missing>>

\* cli.stop --all, lines 218-219: one pass of the loop deletes one listed job
\* (the listing's order, by updated_at, is left open).
StopAllDelete ==
    /\ ctl.pc = "stop_all"
    /\ \E name \in ctl.jobs :
        /\ scraper_state' = delete_job(scraper_state, name)
        /\ ctl' = IF ctl.jobs = {name} THEN NoControl
                  ELSE [ctl EXCEPT !.jobs = @ \ {name}]
    /\ UNCHANGED <<service, replays, scrape_log, files, eng, runs, faults, fetcher, limiter, archive, served, missing>>

(* ------------------------- fetch-logs command -------------------------- *)

\* cli.fetch_logs, lines 290-300: a new process calls LogFetcher.run(limit)
\* with no rating band and no format.
LfLaunch(limits) ==
    /\ fetcher.pc \in {"idle", "exit"}
    /\ runs < MaxRuns
    /\ \E limit \in limits :
        fetcher' = [NoFetcher EXCEPT !.pc = "count", !.limit = limit]
    /\ runs' = runs + 1
    /\ UNCHANGED <<service, replays, scraper_state, scrape_log, files, eng, ctl, faults,
                   limiter, archive, served, missing>>

\* LogFetcher.run, lines 330-336, called with a rating band: no command of
\* the CLI passes one.
LfRun(limits, bands) ==
    /\ fetcher.pc \in {"idle", "exit"}
    /\ runs < MaxRuns
    /\ \E limit \in limits, band \in bands :
        fetcher' = [NoFetcher EXCEPT !.pc = "count", !.limit = limit,
                                    !.min_elo = band[1], !.max_elo = band[2]]
    /\ runs' = runs + 1
    /\ UNCHANGED <<service, replays, scraper_state, scrape_log, files, eng, ctl, faults,
                   limiter, archive, served, missing>>

\* LogFetcher.run, lines 350-359: no row without a log returns 0 at once.
LfCount ==
    /\ fetcher.pc = "count"
    /\ fetcher' = IF count_replays_without_logs(replays, fetcher.min_elo,
                                                  fetcher.max_elo) = 0
                  THEN Returned(fetcher, "nothing")
                  ELSE [fetcher EXCEPT !.pc = "query"]
    /\ UNCHANGED <<service, replays, scraper_state, scrape_log, files, eng, ctl, runs,
                   faults, limiter, archive, served, missing>>

\* LogFetcher.run, lines 375-387: the top of an iteration. The shutdown flag,
\* the room left under the limit, then the candidate query: an empty answer
\* sleeps when there is no limit and leaves the loop when there is one.
LfQuery ==
    /\ fetcher.pc = "query"
    /\ LET f == fetcher
           room == current_limit(f.limit, f.total_fetched)
           rows == get_replays_without_logs(replays, room, f.min_elo, f.max_elo)
       IN  fetcher' =
                IF ~f.running THEN Returned(f, "shutdown")
                ELSE IF room <= 0 THEN Returned(f, "limit")
                ELSE IF rows = <<>>
                THEN IF f.limit = None THEN [f EXCEPT !.pc = "sleep", !.replays = rows]
                     ELSE Returned(f, "empty")
                ELSE [f EXCEPT !.pc = "fetch", !.replays = rows, !.k = 1]
    /\ UNCHANGED <<service, replays, scraper_state, scrape_log, files, eng, ctl, runs,
                   faults, limiter, archive, served, missing>>

\* LogFetcher.run, lines 384-385: time.sleep(10) returns; continue.
LfWake ==
    /\ fetcher.pc = "sleep"
    /\ fetcher' = [fetcher EXCEPT !.pc = "query"]
    /\ UNCHANGED <<service, replays, scraper_state, scrape_log, files, eng, ctl, runs,
                   faults, limiter, archive, served, missing>>

\* LogFetcher.run, lines 389-403: one pass of the for loop. The shutdown flag
\* breaks it; get_replay_log answers a log or None (it swallows
\* ShowdownAPIError, so the except clause of line 399 never runs); a log is
\* archived, the row flagged and total_fetched counted; reaching the limit
\* breaks the loop.
LfFetch ==
    /\ fetcher.pc = "fetch"
    /\ LET f == fetcher
           replay == f.replays[f.k]
           after(total) ==
                IF \/ Truthy(f.limit) /\ total >= f.limit[1]
                   \/ f.k = Len(f.replays)
                THEN "query" ELSE "fetch"
       IN  IF ~f.running
           THEN /\ fetcher' = [f EXCEPT !.pc = "query"]
                /\ UNCHANGED <<replays, files>>
           ELSE \E log \in BOOLEAN :
                IF log
                THEN /\ files' = saved(files, replay.id)
                     /\ replays' = mark_log_fetched(replays, replay.id, 1)
                     /\ fetcher' = [f EXCEPT !.pc = after(f.total_fetched + 1),
                                       !.k = @ + 1, !.total_fetched = @ + 1,
                                       !.fetched = Some(TRUE),
                                       !.requests = count_request(@, replay.id)]
                ELSE /\ UNCHANGED <<replays, files>>
                     /\ fetcher' = [f EXCEPT !.pc = after(f.total_fetched),
                                       !.k = @ + 1, !.fetched = Some(FALSE),
                                       !.requests = count_request(@, replay.id)]
    /\ UNCHANGED <<service, scraper_state, scrape_log, eng, ctl, runs, faults, limiter, archive, served, missing>>

\* LogFetcher._handle_shutdown: SIGINT / SIGTERM clears the running flag.
LfShutdown ==
    /\ fetcher.pc \in {"count", "query", "sleep", "fetch"}
    /\ fetcher.running
    /\ fetcher' = [fetcher EXCEPT !.running = FALSE]
    /\ UNCHANGED <<service, replays, scraper_state, scrape_log, files, eng, ctl, runs,
                   faults, limiter, archive, served, missing>>

(* --------------------------- RateLimiter.wait -------------------------- *)

\* Time passes.
Tick ==
    /\ limiter.now < MaxClock
    /\ limiter' = [limiter EXCEPT !.now = @ + 1]
    /\ UNCHANGED <<service, replays, scraper_state, scrape_log, files, eng, ctl, runs,
                   faults, fetcher, archive, served, missing>>

\* ShowdownAPI._request, line 65: a thread calls wait.
Call(t) ==
    /\ limiter.pc[t] = "idle"
    /\ limiter.calls[t] < MaxCalls
    /\ limiter' = [limiter EXCEPT !.pc[t] = "lock", !.calls[t] = @ + 1]
    /\ UNCHANGED <<service, replays, scraper_state, scrape_log, files, eng, ctl, runs,
                   faults, fetcher, archive, served, missing>>

\* wait, line 24: with self._lock.
Acquire(t) ==
    /\ limiter.pc[t] = "lock"
    /\ can_acquire(limiter.lock)
    /\ limiter' = [limiter EXCEPT !.pc[t] = "read", !.lock = Some(t)]
    /\ UNCHANGED <<service, replays, scraper_state, scrape_log, files, eng, ctl, runs,
                   faults, fetcher, archive, served, missing>>

\* wait, lines 25-29: read the clock and the last request time; start to
\* sleep when less than min_interval has passed.
ReadClock(t) ==
    /\ limiter.pc[t] = "read"
    /\ LET d == sleep_time(limiter.now, limiter.last_request_time)
       IN  limiter' = [limiter EXCEPT !.pc[t] = IF d > 0 THEN "sleep" ELSE "stamp",
                                      !.wake_at[t] = limiter.now + d]
    /\ UNCHANGED <<service, replays, scraper_state, scrape_log, files, eng, ctl, runs,
                   faults, fetcher, archive, served, missing>>

\* wait, line 29: time.sleep returns once the time asked for has passed.
SleepDone(t) ==
    /\ limiter.pc[t] = "sleep"
    /\ limiter.now >= limiter.wake_at[t]
    /\ limiter' = [limiter EXCEPT !.pc[t] = "stamp"]
    /\ UNCHANGED <<service, replays, scraper_state, scrape_log, files, eng, ctl, runs,
                   faults, fetcher, archive, served, missing>>

\* wait, line 30 and the end of the with block: stamp the clock, release the
\* lock, return.
Stamp(t) ==
    /\ limiter.pc[t] = "stamp"
    /\ limiter' = [limiter EXCEPT !.pc[t] = "idle",
                                  !.last_request_time = limiter.now,
                                  !.lock = IF @ = Some(t) THEN None ELSE @,
                                  !.returns = Append(@, [by |-> t, at |-> limiter.now])]
    /\ UNCHANGED <<service, replays, scraper_state, scrape_log, files, eng, ctl, runs,
                   faults, fetcher, archive, served, missing>>

(* ---------------------------- specification ---------------------------- *)

\* One job, one start / resume process at a time, run without log fetching
\* (fetch_logs False, so lines 136-149 are skipped), with pause, stop and
\* shutdown signals arriving at any moment.
OneJob == {"j1"}

Next ==
    \/ Launch(1, OneJob, Limits, {FALSE}, {<<1500, None>>})
    \/ StartCheck(1)
    \/ CreateCheck(1)
    \/ CreateInsert(1)
    \/ ResumeCheck(1)
    \/ RunJobGet(1)
    \/ RunJobMark(1)
    \/ LoopTop(1)
    \/ SearchOk(1)
    \/ SearchError(1)
    \/ Wake(1)
    \/ Insert(1)
    \/ UpdateCursor(1)
    \/ Exception(1)
    \/ Final(1)
    \/ Shutdown(1)
    \/ PauseCheck(OneJob)
    \/ PauseSet
    \/ Stop(OneJob)

Spec == Init /\ [][Next]_vars

\* The same job run with and without log fetching, under both rating bands and
\* without a limit; stop and shutdown arrive at any moment.
NextLogs ==
    \/ Launch(1, OneJob, {None}, BOOLEAN, Bands)
    \/ StartCheck(1)
    \/ CreateCheck(1)
    \/ CreateInsert(1)
    \/ ResumeCheck(1)
    \/ RunJobGet(1)
    \/ RunJobMark(1)
    \/ LoopTop(1)
    \/ SearchOk(1)
    \/ FetchLog(1)
    \/ Insert(1)
    \/ UpdateCursor(1)
    \/ Final(1)
    \/ Shutdown(1)
    \/ Stop(OneJob)

SpecLogs == Init /\ [][NextLogs]_vars

\* Two start / resume processes on the same job name, with no limit and no
\* log fetching.
NextRace ==
    \/ \E e \in Engines : Launch(e, OneJob, {None}, {FALSE}, {<<1500, None>>})
    \/ \E e \in Engines : StartCheck(e)
    \/ \E e \in Engines : CreateCheck(e)
    \/ \E e \in Engines : CreateInsert(e)
    \/ \E e \in Engines : ResumeCheck(e)
    \/ \E e \in Engines : RunJobGet(e)
    \/ \E e \in Engines : RunJobMark(e)
    \/ \E e \in Engines : LoopTop(e)
    \/ \E e \in Engines : SearchOk(e)
    \/ \E e \in Engines : Insert(e)
    \/ \E e \in Engines : UpdateCursor(e)
    \/ \E e \in Engines : Final(e)

SpecRace == Init /\ [][NextRace]_vars

\* Two jobs run by two processes against one store: their searches return
\* the same summaries.
NextJobs ==
    \/ Launch(1, {"j1"}, {None}, {FALSE}, {<<1500, None>>})
    \/ Launch(2, {"j2"}, {None}, {FALSE}, {<<0, Some(1500)>>})
    \/ \E e \in Engines : StartCheck(e)
    \/ \E e \in Engines : CreateCheck(e)
    \/ \E e \in Engines : CreateInsert(e)
    \/ \E e \in Engines : ResumeCheck(e)
    \/ \E e \in Engines : RunJobGet(e)
    \/ \E e \in Engines : RunJobMark(e)
    \/ \E e \in Engines : LoopTop(e)
    \/ \E e \in Engines : SearchOk(e)
    \/ \E e \in Engines : Insert(e)
    \/ \E e \in Engines : UpdateCursor(e)
    \/ \E e \in Engines : Final(e)

SpecJobs == Init /\ [][NextJobs]_vars

\* Two jobs run one after the other with log fetching, while stop removes one
\* job or all of them at any moment.
NextStop ==
    \/ Launch(1, JobNames, {None}, {TRUE}, {<<1500, None>>})
    \/ StartCheck(1)
    \/ CreateCheck(1)
    \/ CreateInsert(1)
    \/ ResumeCheck(1)
    \/ RunJobGet(1)
    \/ RunJobMark(1)
    \/ LoopTop(1)
    \/ SearchOk(1)
    \/ FetchLog(1)
    \/ Insert(1)
    \/ UpdateCursor(1)
    \/ Final(1)
    \/ Stop(JobNames)
    \/ StopAllList
    \/ StopAllDelete

SpecStop == Init /\ [][NextStop]_vars

\* One job run without log fetching while fetch-logs runs beside it, with
\* and without a limit; shutdown signals reach fetch-logs at any moment.
NextBackfill ==
    \/ Launch(1, OneJob, {None}, {FALSE}, {<<1500, None>>})
    \/ StartCheck(1)
    \/ CreateCheck(1)
    \/ CreateInsert(1)
    \/ ResumeCheck(1)
    \/ RunJobGet(1)
    \/ RunJobMark(1)
    \/ LoopTop(1)
    \/ SearchOk(1)
    \/ Insert(1)
    \/ UpdateCursor(1)
    \/ Final(1)
    \/ LfLaunch(Limits)
    \/ LfCount
    \/ LfQuery
    \/ LfWake
    \/ LfFetch
    \/ LfShutdown

SpecBackfill == Init /\ [][NextBackfill]_vars

\* The rating bands LogFetcher.run is called with.
FetchBands == {<<Some(1500), None>>, <<None, Some(1500)>>}

\* One job run without log fetching while LogFetcher.run is called with a
\* rating band, with and without a limit.
NextBand ==
    \/ Launch(1, OneJob, {None}, {FALSE}, {<<1500, None>>})
    \/ StartCheck(1)
    \/ CreateCheck(1)
    \/ CreateInsert(1)
    \/ ResumeCheck(1)
    \/ RunJobGet(1)
    \/ RunJobMark(1)
    \/ LoopTop(1)
    \/ SearchOk(1)
    \/ Insert(1)
    \/ UpdateCursor(1)
    \/ Final(1)
    \/ LfRun({None, Some(1)}, FetchBands)
    \/ LfCount
    \/ LfQuery
    \/ LfWake
    \/ LfFetch
    \/ LfShutdown

SpecBand == Init /\ [][NextBand]_vars

\* fetch-logs is a sequential process: it takes its next step whenever it has one.
SpecBackfillFair ==
    /\ SpecBackfill
    /\ WF_vars(LfCount) /\ WF_vars(LfQuery) /\ WF_vars(LfWake) /\ WF_vars(LfFetch)

\* Threads calling wait on one RateLimiter while the clock runs.
NextLimiter ==
    \/ Tick
    \/ \E t \in Callers : Call(t)
    \/ \E t \in Callers : Acquire(t)
    \/ \E t \in Callers : ReadClock(t)
    \/ \E t \in Callers : SleepDone(t)
    \/ \E t \in Callers : Stamp(t)

SpecLimiter == Init /\ [][NextLimiter]_vars

\* The process running run_job is killed: no handler runs, nothing is written,
\* the row keeps what the last update_job wrote (status running included).
Crash(e) ==
    /\ eng[e].pc \in InRunJob
    /\ eng' = [eng EXCEPT ![e] = Exited(@, "crash", None)]
    /\ UNCHANGED <<service, replays, scraper_state, scrape_log, files, ctl, runs, faults, fetcher, limiter, archive, served, missing>>

\* One job run without limit and without log fetching by a process that can be
\* killed at any point; `pause` puts the row of a killed run back to paused, so
\* that `resume` accepts it.
NextCrash ==
    \/ Launch(1, OneJob, {None}, {FALSE}, {<<1500, None>>})
    \/ StartCheck(1)
    \/ CreateCheck(1)
    \/ CreateInsert(1)
    \/ ResumeCheck(1)
    \/ RunJobGet(1)
    \/ RunJobMark(1)
    \/ LoopTop(1)
    \/ SearchOk(1)
    \/ Insert(1)
    \/ UpdateCursor(1)
    \/ Final(1)
    \/ Crash(1)
    \/ PauseCheck(OneJob)
    \/ PauseSet

SpecCrash == Init /\ [][NextCrash]_vars

\* cli.update_log_sizes: the whole command, committed at its end.
UpdateLogSizes ==
    /\ replays' = update_log_sizes(replays, files)
    /\ missing' = missing_logs(replays, files)
    /\ UNCHANGED <<service, scraper_state, scrape_log, files, eng, ctl, runs, faults, fetcher, limiter, archive, served>>

\* Somebody removes a log file from the archive directory while no command
\* has been run yet.
RemoveFile ==
    /\ runs = 0
    /\ \E id \in files : files' = files \ {id}
    /\ UNCHANGED <<service, replays, scraper_state, scrape_log, eng, ctl, runs, faults, fetcher, limiter, archive, served, missing>>

\* A migrated database on which one job is run with log fetching, fetch-logs
\* --limit 1 runs beside it and update-log-sizes is run at any moment.
NextRows ==
    \/ Launch(1, OneJob, {None}, {TRUE}, {<<1500, None>>})
    \/ StartCheck(1)
    \/ CreateCheck(1)
    \/ CreateInsert(1)
    \/ ResumeCheck(1)
    \/ RunJobGet(1)
    \/ RunJobMark(1)
    \/ LoopTop(1)
    \/ SearchOk(1)
    \/ FetchLog(1)
    \/ Insert(1)
    \/ UpdateCursor(1)
    \/ Final(1)
    \/ LfLaunch({Some(1)})
    \/ LfCount
    \/ LfQuery
    \/ LfFetch
    \/ UpdateLogSizes

SpecRows == InitLegacy /\ [][NextRows]_vars

\* The same on an archive that has lost log files.
NextRepair ==
    \/ Launch(1, OneJob, {None}, {TRUE}, {<<1500, None>>})
    \/ StartCheck(1)
    \/ CreateCheck(1)
    \/ CreateInsert(1)
    \/ ResumeCheck(1)
    \/ RunJobGet(1)
    \/ RunJobMark(1)
    \/ LoopTop(1)
    \/ SearchOk(1)
    \/ FetchLog(1)
    \/ Insert(1)
    \/ UpdateCursor(1)
    \/ Final(1)
    \/ LfLaunch({Some(1)})
    \/ LfCount
    \/ LfQuery
    \/ LfFetch
    \/ UpdateLogSizes
    \/ RemoveFile

SpecRepair == InitLegacy /\ [][NextRepair]_vars

(* ---- LogStorage: save, load and delete on one archive directory ---- *)

\* LogStorage.save(replay_id, format_id, log): write the compressed body.
Save(replay_id, format_id, log) ==
    LET path == get_log_path(replay_id, format_id)
    IN  /\ archive' = [archive EXCEPT
                !.fs[path] = Some(save(log, archive.linesep)),
                !.saved[path] = Some(log)]
        /\ UNCHANGED <<service, replays, scraper_state, scrape_log, files, eng, ctl, runs, faults, fetcher, limiter, served, missing>>

\* LogStorage.load(replay_id, format_id): the body, or None.
Load(replay_id, format_id) ==
    LET path == get_log_path(replay_id, format_id)
    IN  /\ archive' = [archive EXCEPT
                !.loaded = Some([path |-> path, ret |-> load(archive.fs, path)])]
        /\ UNCHANGED <<service, replays, scraper_state, scrape_log, files, eng, ctl, runs, faults, fetcher, limiter, served, missing>>

\* LogStorage.delete(replay_id, format_id): unlink the file when it exists.
Delete(replay_id, format_id) ==
    LET path == get_log_path(replay_id, format_id)
    IN  /\ archive' = [archive EXCEPT !.fs[path] = None, !.saved[path] = None]
        /\ UNCHANGED <<service, replays, scraper_state, scrape_log, files, eng, ctl, runs, faults, fetcher, limiter, served, missing>>

NextArchive ==
    \/ \E id \in ArchiveIds, fmt \in ArchiveFormats, log \in Logs : Save(id, fmt, log)
    \/ \E id \in ArchiveIds, fmt \in ArchiveFormats : Load(id, fmt)
    \/ \E id \in ArchiveIds, fmt \in ArchiveFormats : Delete(id, fmt)

SpecArchive == InitArchive /\ [][NextArchive]_vars

(* ------------------------------ properties ---------------------------- *)

\* The stored row of job `name`, or None.
StoredJob(name) == get_job(scraper_state, name)

\* C1: in every step, a job that is stored before and after the step and whose
\* lastTimestamp is set keeps it set and does not increase it.
C1_CursorNeverIncreases ==
    [][\A name \in JobNames :
        (/\ StoredJob(name) # None
         /\ StoredJob(name)' # None
         /\ StoredJob(name)[1].last_timestamp # None)
        => /\ StoredJob(name)'[1].last_timestamp # None
           /\ StoredJob(name)'[1].last_timestamp[1]
                <= StoredJob(name)[1].last_timestamp[1]]_vars

\* Engine e has issued a search whose batch is not yet folded into the cursor.
SearchIssued(e) ==
    \/ eng[e].pc \in {"sleep", "fetch", "insert", "update"}
    \/ eng[e].pc = "final" /\ eng[e].why = "exhausted"

\* C2: every search of a job whose stored cursor is T is sent with before = T,
\* and the batch it returns holds no already-stored summary newer than T.
C2_SearchUsesStoredCursor ==
    \A e \in Engines :
        LET stored == StoredJob(eng[e].job_name)
        IN  (SearchIssued(e) /\ stored # None /\ stored[1].last_timestamp # None)
            => /\ eng[e].request = Some(stored[1].last_timestamp)
               /\ (eng[e].pc \in {"fetch", "insert"} /\ eng[e].i = 1)
                  => \A n \in 1..Len(eng[e].replays) :
                        ~ /\ eng[e].replays[n].upload_time
                                > stored[1].last_timestamp[1]
                          /\ replay_exists(replays, eng[e].replays[n].id)

\* A summary is ELO-eligible for the job: the rating band, stated on its own.
Eligible(r, job) ==
    /\ r.rating >= job.min_elo
    /\ job.max_elo # None => r.rating <= job.max_elo[1]

ErrorEntry(name, message) == [job_name |-> name, level |-> "error", message |-> message]

\* The step of engine e is a call of insert_replay.
InsertStep(e) == eng[e].pc = "insert" /\ eng'[e].i = eng[e].i + 1

\* C3: the store never holds two rows with one id, and an insert of an id that
\* is already stored answers False and changes neither the table nor the
\* job's total_stored nor the invocation's total_new.
C3_InsertTwiceStoresOnce ==
    /\ [](\A a, b \in 1..Len(replays) : replays[a].id = replays[b].id => a = b)
    /\ [][\A e \in Engines :
            (InsertStep(e) /\ replay_exists(replays, eng[e].replays[eng[e].i].id))
            => /\ replays' = replays
               /\ eng'[e].inserted = Some(FALSE)
               /\ eng'[e].total_new = eng[e].total_new
               /\ eng'[e].job[1].total_stored = eng[e].job[1].total_stored
               /\ scraper_state' = scraper_state]_vars

\* A duplicate has just been refused whose in-memory summary carries a fetched
\* log while the stored row does not.
C3_Witness ==
    \E e \in Engines :
        /\ eng[e].pc \in {"insert", "update"}
        /\ eng[e].inserted = Some(FALSE)
        /\ eng[e].replays[eng[e].i - 1].log_fetched
        /\ \E a \in 1..Len(replays) :
              /\ replays[a].id = eng[e].replays[eng[e].i - 1].id
              /\ ~replays[a].log_fetched

\* C4: in every batch elo_matched is exactly the summaries inside the job's
\* rating band, in batch order, and when the insert loop has ended every
\* summary of the batch is stored.
C4_EloGatesLogsNotStorage ==
    \A e \in Engines :
        (eng[e].pc \in {"fetch", "insert", "update"})
        => LET p == eng[e]
               inband == {n \in 1..Len(p.replays) : Eligible(p.replays[n], p.job[1])}
           IN  /\ {p.elo_matched[n] : n \in 1..Len(p.elo_matched)} = inband
               /\ Len(p.elo_matched) = Cardinality(inband)
               /\ \A n \in 1..(Len(p.elo_matched) - 1) :
                     p.elo_matched[n] < p.elo_matched[n + 1]
               /\ p.pc = "update"
                  => \A n \in 1..Len(p.replays) : replay_exists(replays, p.replays[n].id)

\* The spec's example: min_elo 1500, no max_elo, a batch rated 1200, 1500 and
\* 1800: two eligible, three stored.
C4_Witness ==
    \E e \in Engines :
        /\ eng[e].pc = "update"
        /\ eng[e].job[1].min_elo = 1500 /\ eng[e].job[1].max_elo = None
        /\ {eng[e].replays[n].rating : n \in 1..Len(eng[e].replays)} = {1200, 1500, 1800}
        /\ Len(eng[e].replays) = 3
        /\ Len(eng[e].elo_matched) = 2
        /\ \A n \in 1..3 : replay_exists(replays, eng[e].replays[n].id)

\* No summary of the service has upload time 0, so no cursor is ever 0 and
\* every search after the first is sent with its "before" parameter.
NoZeroUploadTime == \A n \in 1..Len(service) : service[n].upload_time > 0

\* C5: an invocation that stops on its limit L has stored exactly L new replays
\* (stated for services on which every cursor is sent).
C5_StopsAtExactlyLimit ==
    \A e \in Engines :
        (NoZeroUploadTime /\ eng[e].pc = "final" /\ eng[e].why = "limit")
        => eng[e].total_new = eng[e].limit[1]

\* The step of engine e is a search that returned nothing.
EmptyStep(e) ==
    eng[e].pc = "search" /\ eng'[e].pc = "final" /\ eng'[e].searched = "empty"

\* The step of engine e is the final write after a search that returned nothing.
FinalAfterEmptyStep(e) ==
    eng[e].pc = "final" /\ eng[e].why = "exhausted" /\ eng'[e].pc = "exit"

\* C6: an empty search result changes nothing but the job's status, which
\* becomes completed, in memory and then in the stored row.
C6_EmptyResultCompletes ==
    /\ [][\A e \in Engines :
            EmptyStep(e)
            => /\ eng'[e].job = Some([eng[e].job[1] EXCEPT !.status = "completed"])
               /\ eng'[e].total_new = eng[e].total_new
               /\ UNCHANGED <<scraper_state, replays>>]_vars
    /\ [][\A e \in Engines :
            (FinalAfterEmptyStep(e) /\ StoredJob(eng[e].job_name) # None)
            => StoredJob(eng[e].job_name)' =
                 Some([StoredJob(eng[e].job_name)[1] EXCEPT !.status = "completed"])]_vars

\* run_job has returned after an empty search that followed a non-empty batch.
C6_Witness ==
    \E e \in Engines :
        /\ eng[e].pc = "exit" /\ eng[e].why = "exhausted"
        /\ StoredJob(eng[e].job_name) # None
        /\ StoredJob(eng[e].job_name)[1].status = "completed"
        /\ StoredJob(eng[e].job_name)[1].last_timestamp # None
        /\ StoredJob(eng[e].job_name)[1].total_stored > 0

\* The step of engine e is the except handler of run_job.
ExceptionStep(e) ==
    eng[e].pc \in InTry /\ eng'[e].pc = "exit" /\ faults' = faults + 1

\* C7: an unexpected exception appends an error entry, writes the job as paused
\* and returns False; and whenever run_job has returned and the job is still
\* stored, its stored status is paused or completed.
C7_ErrorParksJob ==
    /\ [][\A e \in Engines :
            ExceptionStep(e)
            => /\ scrape_log' = scrape_log (+)
                    SetToBag({ErrorEntry(eng[e].job_name, "unexpected")})
               /\ eng'[e].ret = Some(FALSE)
               /\ StoredJob(eng[e].job_name) # None
                  => /\ StoredJob(eng[e].job_name)' # None
                     /\ StoredJob(eng[e].job_name)'[1].status = "paused"]_vars
    /\ [](\A e \in Engines :
            (/\ eng[e].pc = "exit" /\ eng[e].ret # None
             /\ StoredJob(eng[e].job_name) # None)
            => StoredJob(eng[e].job_name)[1].status \in {"paused", "completed"})

\* run_job has returned False on an exception raised in the middle of a batch.
C7_Witness ==
    \E e \in Engines :
        /\ eng[e].pc = "exit" /\ eng[e].why = "error" /\ eng[e].ret = Some(FALSE)
        /\ StoredJob(eng[e].job_name) # None
        /\ StoredJob(eng[e].job_name)[1].status = "paused"
        /\ StoredJob(eng[e].job_name)[1].total_stored > 0
        /\ BagIn(ErrorEntry(eng[e].job_name, "unexpected"), scrape_log)

\* C8: once another process has set the stored status to paused while run_job
\* is executing, run_job starts no batch after the one in progress, and when
\* it has returned the stored status is paused (stated for invocations without
\* a limit on services on which every cursor is sent).
C8_PauseStopsAfterCurrentBatch ==
    \A e \in Engines :
        (NoZeroUploadTime /\ eng[e].limit = None /\ eng[e].paused_at # None)
        => /\ eng[e].batch_count <= eng[e].paused_at[1]
           /\ (eng[e].pc = "exit" /\ StoredJob(eng[e].job_name) # None)
              => StoredJob(eng[e].job_name)[1].status = "paused"

\* C9: the top of an iteration that finds the job row missing (and no shutdown
\* requested) returns False and issues no search; and a missing row reappears
\* only through create_job (stated for services on which every cursor is sent).
C9_DeletedJobReturnsFalse ==
    [][NoZeroUploadTime =>
       /\ \A e \in Engines :
            (/\ eng[e].pc = "loop" /\ eng'[e].pc # "loop" /\ eng[e].running
             /\ StoredJob(eng[e].job_name) = None)
            => eng'[e].pc = "exit" /\ eng'[e].ret = Some(FALSE)
       /\ \A name \in JobNames :
            (StoredJob(name) = None /\ StoredJob(name)' # None)
            => \E e \in Engines : eng[e].pc = "create_insert"]_vars

\* The step of engine e is a search that raised ShowdownAPIError.
ApiErrorStep(e) == eng[e].pc = "search" /\ eng'[e].pc = "sleep"

\* The step of engine e is the search that follows a failed one.
RetryStep(e) ==
    /\ eng[e].pc = "search" /\ eng[e].searched = "error"
    /\ eng'[e].pc \in {"sleep", "fetch", "insert", "final"}

\* C10: a failed search appends an error entry and changes neither the job (in
\* memory or stored) nor the store nor total_new; the engine then sleeps, and
\* the search that follows is sent with the same parameter.
C10_SearchFailureRetriesSameCursor ==
    /\ [][\A e \in Engines :
            ApiErrorStep(e)
            => /\ scrape_log' = scrape_log (+) SetToBag({ErrorEntry(eng[e].job_name, "api")})
               /\ eng'[e].job = eng[e].job
               /\ eng'[e].job[1].status = "running"
               /\ eng'[e].total_new = eng[e].total_new
               /\ eng'[e].batch_count = eng[e].batch_count
               /\ UNCHANGED <<scraper_state, replays, files>>]_vars
    /\ [][\A e \in Engines : RetryStep(e) => eng'[e].request = eng[e].request]_vars

\* A search that failed has been retried and has returned a batch, with the
\* cursor set.
C10_Witness ==
    \E e \in Engines :
        /\ runs = 1
        /\ BagIn(ErrorEntry(eng[e].job_name, "api"), scrape_log)
        /\ eng[e].pc = "insert" /\ eng[e].searched = "ok"
        /\ eng[e].request # Some(None)

\* The values of ScraperJob.status.
Statuses == {"idle", "running", "paused", "completed"}

\* The step is engine e's first write of run_job for job `name` (line 83).
MarkRunningStep(e, name) ==
    eng[e].pc = "rj_mark" /\ eng[e].job_name = name /\ eng'[e].pc = "loop"

\* The step is engine e's write after the loop (line 185) for job `name`.
FinalStep(e, name) ==
    eng[e].pc = "final" /\ eng[e].job_name = name /\ eng'[e].pc = "exit"

\* C11: every stored status is one of the four values, and every change of a
\* stored job's status is idle/paused/completed -> running made by the start
\* of run_job, running -> completed made by the write after a loop that ended
\* on the limit or on an empty search, or running -> paused made by pause, by
\* the write after a loop that ended on a shutdown or a pause, or by the error
\* path. (Checked for services without a zero upload time.)
C11_StatusStateMachine ==
    /\ [](\A i \in 1..Len(scraper_state) : scraper_state[i].status \in Statuses)
    /\ [][\A name \in JobNames :
            LET old == StoredJob(name)
                new == StoredJob(name)'
            IN  (/\ NoZeroUploadTime
                 /\ old # None /\ new # None /\ old[1].status # new[1].status)
                => \/ /\ new[1].status = "running"
                      /\ \E e \in Engines : MarkRunningStep(e, name)
                   \/ /\ old[1].status = "running" /\ new[1].status = "completed"
                      /\ \E e \in Engines :
                            FinalStep(e, name) /\ eng[e].why \in {"limit", "exhausted"}
                   \/ /\ old[1].status = "running" /\ new[1].status = "paused"
                      /\ \/ ctl.pc = "pause_set" /\ ctl.job_name = name
                         \/ \E e \in Engines :
                              \/ FinalStep(e, name) /\ eng[e].why \in {"shutdown", "paused"}
                              \/ ExceptionStep(e) /\ eng[e].job_name = name]_vars

\* Positions of run_job at which a batch has been returned by search and is
\* being processed (lines 129-161).
InBatch == {"fetch", "insert", "update"}

\* C12: two run_job invocations are never in the middle of a batch of one job
\* at the same time.
C12_BatchesNeverOverlap ==
    \A e1, e2 \in Engines :
        (e1 # e2 /\ eng[e1].job_name = eng[e2].job_name)
        => ~(eng[e1].pc \in InBatch /\ eng[e2].pc \in InBatch)

\* The total_stored of job `name` as its run_job invocation holds it while it
\* runs, else as its row holds it; 0 when the job does not exist.
CountedStored(name) ==
    IF \E e \in Engines : eng[e].job_name = name /\ eng[e].pc \in InRunJob
    THEN LET e == CHOOSE x \in Engines :
                    eng[x].job_name = name /\ eng[x].pc \in InRunJob
         IN  eng[e].job[1].total_stored
    ELSE IF StoredJob(name) # None THEN StoredJob(name)[1].total_stored
    ELSE 0

\* C13: with two jobs inserting the same summaries, no id has two rows and
\* every row is counted in the total_stored of exactly one job: the two
\* counters add up to the number of rows.
C13_SharedIdsStoredAndCountedOnce ==
    /\ \A i, j \in 1..Len(replays) : replays[i].id = replays[j].id => i = j
    /\ CountedStored("j1") + CountedStored("j2") = Len(replays)

\* Both jobs have run to the end beside each other; each was refused an id the
\* other had stored, and each stored some.
C13_Witness ==
    /\ eng[1].pc = "exit" /\ eng[2].pc = "exit"
    /\ eng[1].job_name = "j1" /\ eng[2].job_name = "j2"
    /\ StoredJob("j1") # None /\ StoredJob("j2") # None
    /\ StoredJob("j1")[1].total_stored > 0 /\ StoredJob("j2")[1].total_stored > 0
    /\ StoredJob("j1")[1].total_fetched > StoredJob("j1")[1].total_stored
    /\ StoredJob("j2")[1].total_fetched > StoredJob("j2")[1].total_stored
    /\ Len(replays) = NumReplays

\* The step of engine e is a step of job creation: the check of cli.start, the
\* check of ReplayScraper.create_job or the INSERT of Database.create_job.
CreateStep(e) ==
    eng[e].pc \in {"start_check", "create_check", "create_insert"} /\ eng'[e] # eng[e]

\* C14: no two job rows have one name, and a creation step that finds the name
\* taken ends the command with an error, without calling run_job, and leaves
\* the table of jobs as it was.
C14_CreateExistingFails ==
    /\ [](\A i, j \in 1..Len(scraper_state) :
            scraper_state[i].job_name = scraper_state[j].job_name => i = j)
    /\ [][\A e \in Engines :
            (CreateStep(e) /\ job_exists(scraper_state, eng[e].job_name))
            => /\ scraper_state' = scraper_state
               /\ eng'[e].pc = "exit"
               /\ eng'[e].why \in {"exists", "integrity"}
               /\ eng'[e].ret = None]_vars

\* Two start commands passed both checks; the INSERT of the second was
\* refused, and the job of the first is stored and has run.
C14_Witness ==
    \E e1, e2 \in Engines :
        /\ eng[e1].cmd = "start" /\ eng[e1].pc = "exit" /\ eng[e1].why = "integrity"
        /\ eng[e2].cmd = "start" /\ eng[e2].job_name = eng[e1].job_name
        /\ StoredJob(eng[e1].job_name) # None
        /\ StoredJob(eng[e1].job_name)[1].total_stored > 0

\* C15: a step that removes the row of a job changes no replay row, no archived
\* log and no other job row.
C15_DeleteKeepsReplaysAndLogs ==
    [][\A name \in JobNames :
        (StoredJob(name) # None /\ StoredJob(name)' = None)
        => /\ replays' = replays
           /\ files' = files
           /\ \A other \in JobNames \ {name} : StoredJob(other)' = StoredJob(other)]_vars

\* Both jobs have run and both rows have been removed; the replays they stored
\* and a log they archived are still there.
C15_Witness ==
    /\ scraper_state = <<>>
    /\ \A name \in JobNames :
            BagIn([job_name |-> name, level |-> "info", message |-> "finished"], scrape_log)
    /\ Len(replays) = NumReplays
    /\ \E i \in 1..Len(replays) : replays[i].log_fetched /\ replays[i].id \in files

\* C16: a fetch-logs run without a limit returns only after a shutdown
\* request; until then an empty candidate query sends it to sleep.
C16_UnlimitedBackfillPollsUntilShutdown ==
    (fetcher.pc = "exit" /\ fetcher.limit = None) => ~fetcher.running

\* C17: within one fetch-logs invocation the log of a replay is requested at
\* most once.
C17_BackfillRequestsEachLogOnce ==
    \A id \in 1..NumReplays : fetcher.requests[id] <= 1

\* The step is a log request of fetch-logs that brought no log.
FailedFetchStep ==
    /\ fetcher.pc = "fetch" /\ fetcher.running
    /\ fetcher'.k = fetcher.k + 1
    /\ fetcher'.fetched = Some(FALSE)

\* C18: a log request of fetch-logs that fails appends a warning entry, and the
\* sweep goes on to the next candidate of its list.
C18_BackfillFailureLogsWarning ==
    [][FailedFetchStep
       => /\ \E w \in BagToSet(scrape_log') :
                /\ w.level = "warning"
                /\ CopiesIn(w, scrape_log') = CopiesIn(w, scrape_log) + 1
          /\ fetcher.k < Len(fetcher.replays)
                => fetcher'.pc = "fetch" /\ fetcher'.replays = fetcher.replays]_vars

\* C19: a fetch-logs run that was given a limit returns, whatever the log
\* requests bring.
C19_LimitedBackfillTerminates ==
    [](  (fetcher.pc \in {"count", "query", "sleep", "fetch"} /\ fetcher.limit # None)
      => <>(fetcher.pc = "exit"))

\* The callers inside the critical section of wait (lines 25-30).
InWait == {t \in Callers : limiter.pc[t] \in {"read", "sleep", "stamp"}}

\* C20: at most one caller at a time is between reading the last request time
\* and stamping the new one, and any two consecutive returns from wait (each
\* timed by its stamp) are at least min_interval apart.
C20_WaitIsSerialised ==
    /\ Cardinality(InWait) <= 1
    /\ \A i \in 1..(Len(limiter.returns) - 1) :
            limiter.returns[i + 1].at - limiter.returns[i].at >= min_interval

\* Two callers were in wait together: one slept inside the lock while the
\* other waited for it, and their returns are exactly min_interval apart.
C20_Witness ==
    \E i \in 1..(Len(limiter.returns) - 1) :
        /\ limiter.returns[i].by # limiter.returns[i + 1].by
        /\ limiter.returns[i + 1].at - limiter.returns[i].at = min_interval
        /\ \E t \in Callers : limiter.pc[t] = "sleep"
        /\ \E t \in Callers : limiter.pc[t] = "lock"

\* C21: whenever load returns, it returns the body last saved under that id and
\* format, character for character, and absent when nothing was saved there or
\* the file has been deleted since.
C21_SaveThenLoadReturnsOriginal ==
    archive.loaded # None =>
        archive.loaded[1].ret = archive.saved[archive.loaded[1].path]

\* The step of engine e is a return of run_job.
ReturnStep(e) ==
    eng[e].pc \in {"rj_get"} \cup InRunJob /\ eng'[e].pc = "exit"

\* C22: run_job returns True exactly when its loop ended on the limit or on an
\* empty search, and then a job that is still stored is left completed; it
\* returns False when the job was not found, was paused, was stopped by a
\* shutdown or by an error, and a stored job is then left not completed; and an
\* iteration that starts with the job's row deleted leads to a False return.
C22_ReturnsTrueIffCompleted ==
    [][\A e \in Engines :
        /\ ReturnStep(e)
           => /\ eng'[e].ret = Some(TRUE) <=> eng'[e].why \in {"limit", "exhausted"}
              /\ eng'[e].ret = Some(FALSE)
                 <=> eng'[e].why \in {"notfound", "deleted", "paused", "shutdown", "error"}
              /\ StoredJob(eng[e].job_name)' # None
                 => (eng'[e].ret = Some(TRUE)
                     <=> StoredJob(eng[e].job_name)'[1].status = "completed")
        /\ (/\ eng[e].pc = "loop" /\ eng'[e].pc # "loop"
            /\ StoredJob(eng[e].job_name) = None)
           => eng'[e].why \in {"deleted", "shutdown", "error"}]_vars

\* The step of engine e is a get_replay_log request made by run_job.
LogRequestStep(e) == eng[e].pc = "fetch" /\ eng'[e].k = eng[e].k + 1

\* The step of engine e is the update_job that ends a batch.
UpdateStep(e) == eng[e].pc = "update" /\ eng'[e].pc = "loop"

\* C23: once the shutdown flag is set, run_job requests no log and starts no
\* search; from inside a batch it goes on through the insert loop, where each
\* of its steps is an insert_replay call, writes the job with the cursor of the
\* whole batch and the counters, leaves the loop at its head and writes the job
\* with status paused. When the insert loop has ended every summary of the
\* batch is stored.
C23_ShutdownFinishesBatchThenPauses ==
    /\ [][\A e \in Engines :
            LET p == eng[e]
                stored == StoredJob(p.job_name)
            IN  (~p.running /\ eng'[e] # p)
                => /\ ~LogRequestStep(e)
                   /\ p.pc # "search" => eng'[e].pc # "search"
                   /\ p.pc = "fetch" => eng'[e] = [p EXCEPT !.pc = "insert"]
                   /\ p.pc = "insert"
                      => /\ InsertStep(e)
                         /\ replay_exists(replays', p.replays[p.i].id)
                   /\ p.pc = "update"
                      => /\ eng'[e].pc = "loop"
                         /\ eng'[e].job[1] = [p.job[1] EXCEPT !.last_timestamp =
                                Some(p.replays[Len(p.replays)].upload_time)]
                         /\ stored # None => stored' = eng'[e].job
                   /\ p.pc = "loop"
                      => eng'[e] = [p EXCEPT !.pc = "final", !.why = "shutdown"]
                   /\ (p.pc = "final" /\ p.why = "shutdown")
                      => /\ eng'[e].pc = "exit" /\ eng'[e].ret = Some(FALSE)
                         /\ stored # None
                            => stored' = Some([p.job[1] EXCEPT !.status = "paused"])]_vars
    /\ [](\A e \in Engines :
            eng[e].pc = "update"
            => \A n \in 1..Len(eng[e].replays) :
                  replay_exists(replays, eng[e].replays[n].id))

\* A shutdown broke the log loop of a batch with eligible summaries left
\* unrequested; the whole batch has been inserted, the cursor written, and the
\* loop has been left at its head.
C23_Witness ==
    \E e \in Engines :
        LET p == eng[e]
        IN  /\ p.pc = "final" /\ p.why = "shutdown" /\ ~p.running
            /\ p.fetch_logs /\ p.k <= Len(p.elo_matched)
            /\ \A n \in 1..Len(p.replays) : replay_exists(replays, p.replays[n].id)
            /\ StoredJob(p.job_name) # None
            /\ StoredJob(p.job_name)[1].last_timestamp =
                  Some(p.replays[Len(p.replays)].upload_time)
            /\ StoredJob(p.job_name)[1].status = "running"

\* C24: the update_job that ends a batch sets last_timestamp, in memory and in
\* the stored row, to the upload time of the last summary of the batch as
\* search returned it; and no other step changes the last_timestamp of a job
\* held by run_job or of a stored row.
C24_CursorIsLastOfRawBatch ==
    [][/\ \A e \in Engines :
            LET p == eng[e]
                last == Some(p.replays[Len(p.replays)].upload_time)
            IN  /\ UpdateStep(e)
                   => /\ eng'[e].job[1].last_timestamp = last
                      /\ StoredJob(p.job_name) # None
                         => StoredJob(p.job_name)'[1].last_timestamp = last
                /\ (/\ p.job # None /\ eng'[e].job # None
                    /\ eng'[e].job[1].last_timestamp # p.job[1].last_timestamp)
                   => UpdateStep(e)
       /\ \A name \in JobNames :
            (/\ StoredJob(name) # None /\ StoredJob(name)' # None
             /\ StoredJob(name)'[1].last_timestamp # StoredJob(name)[1].last_timestamp)
            => \E e \in Engines : UpdateStep(e) /\ eng[e].job_name = name]_vars

\* A batch has ended in which every summary was a duplicate and one was outside
\* the rating band; the cursor is the upload time of its last summary.
C24_Witness ==
    \E e \in Engines :
        LET p == eng[e]
        IN  /\ p.pc = "loop" /\ p.batch_count = 1 /\ p.total_new = 0
            /\ Len(p.elo_matched) < Len(p.replays)
            /\ p.replays[1].upload_time > p.replays[Len(p.replays)].upload_time
            /\ StoredJob(p.job_name) # None
            /\ StoredJob(p.job_name)[1].last_timestamp =
                  Some(p.replays[Len(p.replays)].upload_time)

C26_NoBatchOnceLimitReached ==
    /\ [](\A e \in Engines :
            (eng[e].pc = "search" /\ eng[e].limit # None)
            => eng[e].total_new < eng[e].limit[1])
    /\ [][\A e \in Engines :
            LET p == eng[e]
            IN  (/\ p.pc = "loop" /\ eng'[e].pc # "loop" /\ ~ExceptionStep(e)
                 /\ p.running /\ p.limit # None /\ p.total_new >= p.limit[1])
                => /\ eng'[e].pc = "final" /\ eng'[e].why = "limit"
                   /\ eng'[e].job[1].status = "completed"]_vars

\* C27: the total_fetched of the job run_job holds equals the number of
\* summaries search has returned to the run_job calls on that job since the job
\* was created, and so does the stored total_fetched whenever no run_job call
\* is executing on the job.
C27_TotalFetchedSumsBatches ==
    /\ \A e \in Engines :
          (eng[e].pc \in InTry \cup {"final"})
          => eng[e].job[1].total_fetched = served[eng[e].job_name]
    /\ \A name \in JobNames :
          (/\ StoredJob(name) # None
           /\ \A e \in Engines : ~(eng[e].job_name = name /\ eng[e].pc \in InRunJob))
          => StoredJob(name)[1].total_fetched = served[name]

\* The second run of a job has returned on a service on which every cursor is
\* sent; the two runs were served more summaries than are stored (the second
\* run was served again what the first had stored), some of them outside the
\* rating band.
C27_Witness ==
    \E e \in Engines :
        /\ NoZeroUploadTime
        /\ eng[e].pc = "exit" /\ eng[e].ret # None /\ runs = 2
        /\ StoredJob(eng[e].job_name) # None
        /\ StoredJob(eng[e].job_name)[1].total_fetched = served[eng[e].job_name]
        /\ served[eng[e].job_name] > Len(replays)
        /\ StoredJob(eng[e].job_name)[1].total_stored = Len(replays)
        /\ \E n \in 1..Len(replays) : ~Eligible(replays[n], StoredJob(eng[e].job_name)[1])

\* C28: an insert_replay call adds one to the job's total_stored and to
\* total_new when the id was not stored and nothing when it was; no other step
\* of run_job changes either, except that run_job starts with total_new 0 and
\* the total_stored of the stored row; every write of the row carries the
\* in-memory total_stored; and the loop is not left on the limit while
\* total_new is below it, whatever total_stored is.
C28_TotalStoredCountsFirstInserts ==
    [][\A e \in Engines :
        LET p == eng[e]
            q == eng'[e]
            new == IF replay_exists(replays, p.replays[p.i].id) THEN 0 ELSE 1
        IN  /\ InsertStep(e)
               => /\ q.job[1].total_stored = p.job[1].total_stored + new
                  /\ q.total_new = p.total_new + new
                  /\ Len(replays') = Len(replays) + new
            /\ (p.pc \in InTry /\ q.pc \in InTry \cup {"final"} /\ ~InsertStep(e))
               => /\ q.job[1].total_stored = p.job[1].total_stored
                  /\ q.total_new = p.total_new
            /\ MarkRunningStep(e, p.job_name)
               => /\ q.total_new = 0
                  /\ StoredJob(p.job_name) # None
                     => q.job[1].total_stored = StoredJob(p.job_name)[1].total_stored
            /\ (UpdateStep(e) \/ ExceptionStep(e) \/ FinalStep(e, p.job_name))
               => (StoredJob(p.job_name) # None
                   => StoredJob(p.job_name)'[1].total_stored = p.job[1].total_stored)
            /\ (p.pc = "loop" /\ p.limit # None /\ p.total_new < p.limit[1])
               => q.why # "limit"]_vars

\* A later invocation with limit 1 goes on to search with nothing new stored
\* yet although the job's total_stored, carried over from the earlier
\* invocation, is above the limit; duplicates were met on the way.
C28_Witness ==
    \E e \in Engines :
        LET p == eng[e]
        IN  /\ p.pc = "search" /\ p.limit = Some(1) /\ runs = 2
            /\ p.total_new = 0 /\ p.batch_count = 1 /\ p.inserted = Some(FALSE)
            /\ p.job[1].total_stored = 3 /\ Len(replays) = 3

\* The step of engine e is a get_replay_log request that archived no log.
FailedLogStep(e) ==
    /\ LogRequestStep(e)
    /\ eng[e].replays[eng[e].elo_matched[eng[e].k]].id \notin files'

\* The stored row with that id.
Row(id) == replays[CHOOSE a \in 1..Len(replays) : replays[a].id = id]

\* C29: a log request of run_job that brings no log leaves the summary as
\* search gave it and goes on to the next eligible summary or to the insert
\* loop, writing nothing; and when the insert loop has ended every summary of
\* the batch is stored, and each eligible one for which no log is archived is
\* stored with log_fetched False and log_size 0 and is among the rows
\* get_replays_without_logs returns.
C29_FailedLogFetchKeepsBatch ==
    /\ [][\A e \in Engines :
            LET p == eng[e]
            IN  FailedLogStep(e)
                => /\ eng'[e] = [p EXCEPT
                        !.pc = IF p.k = Len(p.elo_matched) THEN "insert" ELSE "fetch",
                        !.k = p.k + 1]
                   /\ ~p.replays[p.elo_matched[p.k]].log_fetched
                   /\ UNCHANGED <<replays, scraper_state, scrape_log>>]_vars
    /\ [](\A e \in Engines :
            LET p == eng[e]
                job == p.job[1]
                candidates == get_replays_without_logs(replays, Len(replays), None, None)
            IN  p.pc = "update"
                => \A n \in 1..Len(p.replays) :
                     /\ replay_exists(replays, p.replays[n].id)
                     /\ (Eligible(p.replays[n], job) /\ p.replays[n].id \notin files)
                        => /\ ~Row(p.replays[n].id).log_fetched
                           /\ Row(p.replays[n].id).log_size = 0
                           /\ \E c \in 1..Len(candidates) :
                                 candidates[c].id = p.replays[n].id)

\* A batch has ended, its cursor written, in which one eligible summary got its
\* log and another, requested too, did not; both are stored.
C29_Witness ==
    \E e \in Engines :
        LET p == eng[e]
        IN  /\ p.pc = "loop" /\ p.batch_count = 1 /\ p.fetch_logs
            /\ p.k = Len(p.elo_matched) + 1
            /\ \E a, b \in 1..Len(p.elo_matched) :
                  /\ p.replays[p.elo_matched[a]].log_fetched
                  /\ ~p.replays[p.elo_matched[b]].log_fetched
                  /\ p.replays[p.elo_matched[b]].id \notin files
                  /\ replay_exists(replays, p.replays[p.elo_matched[a]].id)
                  /\ replay_exists(replays, p.replays[p.elo_matched[b]].id)
                  /\ ~Row(p.replays[p.elo_matched[b]].id).log_fetched
            /\ p.job[1].last_timestamp = Some(p.replays[Len(p.replays)].upload_time)

\* C30: every get_replay_log request of run_job is made by an invocation with
\* fetch_logs set, for a summary inside the job's rating band; in a batch only
\* such summaries are ever flagged log_fetched; and an invocation without
\* fetch_logs is never in the log loop, leaves the archive as it is and inserts
\* every row with log_fetched False and log_size 0.
C30_LogsOnlyForEligibleWhenEnabled ==
    /\ [][\A e \in Engines :
            LET p == eng[e]
            IN  /\ LogRequestStep(e)
                   => /\ p.fetch_logs
                      /\ Eligible(p.replays[p.elo_matched[p.k]], p.job[1])
                /\ (~p.fetch_logs /\ p.pc \in InRunJob /\ eng'[e] # p)
                   => files' = files
                /\ (/\ InsertStep(e) /\ ~p.fetch_logs
                    /\ ~replay_exists(replays, p.replays[p.i].id))
                   => /\ replays' = Append(replays, p.replays[p.i])
                      /\ ~p.replays[p.i].log_fetched
                      /\ p.replays[p.i].log_size = 0]_vars
    /\ [](\A e \in Engines :
            LET p == eng[e]
            IN  /\ ~p.fetch_logs => p.pc # "fetch"
                /\ p.pc \in InBatch
                   => \A n \in 1..Len(p.replays) :
                         p.replays[n].log_fetched
                         => p.fetch_logs /\ Eligible(p.replays[n], p.job[1]))

\* An invocation without fetch_logs has inserted a batch of three with two
\* summaries inside the rating band: no log is archived and no row is flagged.
C30_Witness ==
    \E e \in Engines :
        LET p == eng[e]
        IN  /\ p.pc = "update" /\ ~p.fetch_logs
            /\ Len(p.replays) = 3 /\ Len(p.elo_matched) = 2
            /\ files = {}
            /\ Len(replays) = 3
            /\ \A a \in 1..3 : ~replays[a].log_fetched /\ replays[a].log_size = 0

\* C31: when a run without a limit has ended on an empty search, every summary
\* the service holds is stored, whatever the upload times are.
C31_NoWorkLost ==
    \A e \in Engines :
        (eng[e].pc \in {"final", "exit"} /\ eng[e].why = "exhausted" /\ eng[e].limit = None)
        => \A n \in 1..Len(service) : replay_exists(replays, service[n].id)

\* The ids of a sequence of summaries, in order.
Ids(batch) == [n \in 1..Len(batch) |-> batch[n].id]

\* C32: the stored cursor changes only in the update_job that ends a batch, when
\* every summary of the batch is stored; while a batch is in progress a search
\* from the stored cursor returns that whole batch; and the stored cursor is
\* never below the upload time of a summary of the service that is not stored.
\* So whenever the process is killed, the row it leaves makes the resumed run
\* fetch the unfinished batch again, whole.
C32_CursorAdvancesAfterInserts ==
    /\ [][\A name \in JobNames :
            (/\ StoredJob(name) # None /\ StoredJob(name)' # None
             /\ StoredJob(name)'[1].last_timestamp # StoredJob(name)[1].last_timestamp)
            => \E e \in Engines :
                  /\ UpdateStep(e) /\ eng[e].job_name = name
                  /\ \A n \in 1..Len(eng[e].replays) :
                        replay_exists(replays, eng[e].replays[n].id)]_vars
    /\ [](\A e \in Engines :
            (eng[e].pc \in InBatch /\ StoredJob(eng[e].job_name) # None)
            => Ids(service_page(service,
                      search_params(StoredJob(eng[e].job_name)[1].last_timestamp)))
               = Ids(eng[e].replays))
    /\ [](\A name \in JobNames : \A n \in 1..Len(service) :
            (/\ StoredJob(name) # None
             /\ StoredJob(name)[1].last_timestamp # None
             /\ ~replay_exists(replays, service[n].id))
            => service[n].upload_time <= StoredJob(name)[1].last_timestamp[1])

\* A run resumed after a kill has been served the batch the killed run left
\* half inserted: its first summary is stored, its last is not.
C32_Witness ==
    \E e \in Engines :
        LET p == eng[e]
        IN  /\ p.cmd = "resume" /\ p.pc = "insert" /\ p.i = 1 /\ p.batch_count = 1
            /\ Len(p.replays) = 3
            /\ replay_exists(replays, p.replays[1].id)
            /\ ~replay_exists(replays, p.replays[3].id)
            /\ StoredJob(p.job_name) # None

\* C33: every step that changes the counters or the cursor of a stored row is
\* the update_job that ends a batch, and it adds the batch to total_fetched,
\* writes the total_stored reached by its inserts and moves the cursor to its
\* last summary, all three in one write; so no stored row counts a batch whose
\* cursor it does not hold.
C33_RowIsBatchConsistent ==
    [][\A name \in JobNames :
        LET old == StoredJob(name)
            new == StoredJob(name)'
        IN  (/\ old # None /\ new # None
             /\ <<new[1].total_fetched, new[1].total_stored, new[1].last_timestamp>>
                # <<old[1].total_fetched, old[1].total_stored, old[1].last_timestamp>>)
            => \E e \in Engines :
                  /\ UpdateStep(e) /\ eng[e].job_name = name
                  /\ new[1].total_fetched = old[1].total_fetched + Len(eng[e].replays)
                  /\ new[1].total_stored = eng[e].job[1].total_stored
                  /\ new[1].last_timestamp =
                        Some(eng[e].replays[Len(eng[e].replays)].upload_time)]_vars

\* The step is fetch-logs flagging the row of the log it has just archived.
MarkStep ==
    /\ fetcher.pc = "fetch"
    /\ replays' = mark_log_fetched(replays, fetcher.replays[fetcher.k].id, 1)

\* The step is update-log-sizes.
RepairStep == replays' = update_log_sizes(replays, files)

\* C34: an insert_replay call of run_job for an id that is stored leaves the
\* table as it is, whether or not the summary carries a freshly fetched log;
\* no step removes a row; and every step that changes a stored row is the
\* mark_log_fetched of fetch-logs or update-log-sizes.
C34_RunJobNeverModifiesStoredRow ==
    [][/\ \A e \in Engines :
            (InsertStep(e) /\ replay_exists(replays, eng[e].replays[eng[e].i].id))
            => replays' = replays
       /\ Len(replays') >= Len(replays)
       /\ \A a \in 1..Len(replays) :
            replays'[a] # replays[a] => (MarkStep \/ RepairStep)]_vars

\* run_job has fetched and archived the log of a summary whose row was already
\* stored unflagged; its insert was refused and the row is still unflagged.
C34_Witness ==
    \E e \in Engines :
        LET p == eng[e]
        IN  /\ p.pc \in {"insert", "update"} /\ p.inserted = Some(FALSE)
            /\ p.replays[p.i - 1].log_fetched /\ p.replays[p.i - 1].log_size = 1
            /\ p.replays[p.i - 1].id \in files
            /\ replay_exists(replays, p.replays[p.i - 1].id)
            /\ ~Row(p.replays[p.i - 1].id).log_fetched
            /\ Row(p.replays[p.i - 1].id).log_size = 0

\* C35: with no archive file removed from outside, every stored row flagged
\* log_fetched has its log in the archive, and so has every summary that
\* run_job holds flagged in memory: the save comes before the flag.
C35_FlaggedRowHasArchivedLog ==
    /\ \A a \in 1..Len(replays) : replays[a].log_fetched => replays[a].id \in files
    /\ \A e \in Engines : \A i \in 1..Len(eng[e].replays) :
            eng[e].replays[i].log_fetched => eng[e].replays[i].id \in files

\* A row stored after the newest summary, so by run_job and not there from
\* the start, was stored flagged, and fetch-logs has flagged another row.
C35_Witness ==
    /\ \E a \in 1..Len(replays) : \E b \in (a + 1)..Len(replays) :
            /\ replays[a].id = service[1].id
            /\ replays[b].log_fetched
            /\ fetcher.requests[replays[b].id] = 0
    /\ fetcher.pc = "exit" /\ fetcher.ret = Some(1)

\* C36: no step removes a stored row or moves it (the stored ids only grow);
\* update-log-sizes puts a row flagged log_fetched with log_size 0 whose
\* archive file is missing back to log_fetched False and log_size 0; and a
\* row goes from log_fetched True to False in no other step.
C36_RowsAreNeverDeleted ==
    [][/\ Len(replays') >= Len(replays)
       /\ \A a \in 1..Len(replays) : replays'[a].id = replays[a].id
       /\ \A a \in 1..Len(replays) :
            LET lost == /\ replays[a].log_fetched /\ replays[a].log_size = 0
                        /\ replays[a].id \notin files
            IN  /\ (missing' # missing \/ replays'[a] # replays[a])
                      => (lost => replays'[a] = [replays[a] EXCEPT !.log_fetched = FALSE,
                                                                   !.log_size = 0])
                /\ (replays[a].log_fetched /\ ~replays'[a].log_fetched)
                      => (RepairStep /\ lost)]_vars

\* update-log-sizes has just reported rows that miss their file: they are
\* still stored, unflagged.
C36_Witness ==
    /\ missing > 0
    /\ Len(replays) >= missing
    /\ \E a \in 1..Len(replays) :
            /\ ~replays[a].log_fetched /\ replays[a].log_size = 0
            /\ replays[a].id \notin files
    /\ \E a \in 1..Len(replays) : replays[a].log_fetched /\ replays[a].log_size = 1

\* LogFetcher.run requests the log of its current candidate.
BackfillRequestStep ==
    /\ fetcher.pc = "fetch" /\ fetcher.running
    /\ fetcher'.k = fetcher.k + 1

BackfillSuccessStep ==
    /\ BackfillRequestStep
    /\ fetcher'.fetched = Some(TRUE)

\* C38: a fetch-logs run with limit L never counts more than L successful
\* fetches, each flagging of a row counts one, the count is what the run
\* returns, and with L = 0 the run requests no log at all.
C38_BackfillNeverExceedsLimit ==
    /\ [](fetcher.limit # None
            => /\ fetcher.total_fetched <= fetcher.limit[1]
               /\ (fetcher.ret # None => fetcher.ret[1] <= fetcher.limit[1])
               /\ (fetcher.limit[1] = 0
                    => \A id \in 1..NumReplays : fetcher.requests[id] = 0))
    /\ [][/\ (BackfillSuccessStep
                => /\ fetcher'.total_fetched = fetcher.total_fetched + 1
                   /\ \E a \in 1..Len(replays') :
                        /\ replays'[a].id = fetcher.replays[fetcher.k].id
                        /\ replays'[a].log_fetched)
           /\ (fetcher.pc \in {"query", "fetch"} /\ fetcher'.pc = "exit"
                => fetcher'.ret = Some(fetcher.total_fetched))
           /\ (fetcher.pc \in {"query", "sleep", "fetch"} /\ fetcher'.pc # "exit"
                /\ fetcher'.total_fetched # fetcher.total_fetched
                => BackfillSuccessStep)]_vars

\* A run with limit 1 has returned 1 after a failed and a successful request,
\* leaving a stored row without its log.
C38_Witness ==
    /\ fetcher.pc = "exit" /\ fetcher.limit = Some(1) /\ fetcher.ret = Some(1)
    /\ fetcher.why = "limit"
    /\ \E id \in 1..NumReplays : fetcher.requests[id] = 2
    /\ \E a \in 1..Len(replays) : ~replays[a].log_fetched

\* C39: every stored job row has total_stored <= total_fetched, and while a
\* job row exists neither of its two counters ever goes down, whatever runs,
\* pauses, errors, shutdowns and resumes follow each other.
C39_CountersOrderedAndMonotonic ==
    /\ [](\A name \in JobNames :
            StoredJob(name) # None
                => StoredJob(name)[1].total_stored <= StoredJob(name)[1].total_fetched)
    /\ [][\A name \in JobNames :
            (StoredJob(name) # None /\ StoredJob(name)' # None)
                => /\ StoredJob(name)'[1].total_fetched >= StoredJob(name)[1].total_fetched
                   /\ StoredJob(name)'[1].total_stored >= StoredJob(name)[1].total_stored]_vars

\* A job paused after its first batch has been resumed and has written the
\* counters of a second batch: more fetched than stored, both above the
\* first batch's.
C39_Witness ==
    \E e \in Engines :
        /\ eng[e].cmd = "resume" /\ eng[e].pc = "exit"
        /\ StoredJob(eng[e].job_name) # None
        /\ StoredJob(eng[e].job_name)[1].total_stored > PageSize
        /\ StoredJob(eng[e].job_name)[1].total_fetched
                > StoredJob(eng[e].job_name)[1].total_stored

====
